---- MODULE Spec2Model ----
(***************************************************************************)
(* Kopia maintenance scheduling in VolSync.                                *)
(*                                                                         *)
(* Spec    : the ReplicationSource-driven path.  KopiaMaintenanceController*)
(*           reconciles ReplicationSources and drives MaintenanceManager,  *)
(*           which creates, updates and garbage-collects the maintenance   *)
(*           CronJobs.                                                     *)
(* SpecArb : the KopiaMaintenance (policy) arbitration of                  *)
(*           EnhancedMaintenanceManager.findBestMatchingMaintenanceConfig. *)
(* SpecSettings : Spec for one ReplicationSource whose maintenanceCronJob  *)
(*           settings (suspend, history limits, resources) change.         *)
(* SpecDirect : the namespaced KopiaMaintenance reconciler: finalizer,     *)
(*           validation, status conditions and the CronJob of a policy     *)
(*           that names its repository secret.                             *)
(* SpecValidate, SpecPattern, SpecLabels : KopiaMaintenance.Validate, the  *)
(*           repository-name matchers and the policy matchers, applied to  *)
(*           bounded sets of inputs.                                       *)
(* SpecEnhanced : EnhancedMaintenanceManager.ReconcileMaintenanceForSource *)
(*           with policies and legacy settings; SpecInterval : Spec for a  *)
(*           source that sets maintenanceIntervalDays.                     *)
(* SpecProjection, SpecSelector : the selector-capable, cluster-scoped     *)
(*           KopiaMaintenanceReconciler, in direct repository mode (the    *)
(*           repository secret is copied to the operator namespace) and in *)
(*           selector mode (matched sources, status).                      *)
(* SpecNames, SpecHash : the CronJob names generated for policies and      *)
(*           RepositoryConfig.Hash, applied to bounded sets of inputs.     *)
(* SpecTie : SpecArb for policies that carry a creation timestamp.         *)
(* SpecDirectFair, SpecDisableFair : SpecDirect, and the ReplicationSource *)
(*           path for two sources of one namespace (SpecDisable), under    *)
(*           the fairness the work queue and the periodic ticker give.     *)
(* SpecRace : two controller workers; the Get and the Create of            *)
(*           ensureMaintenanceCronJob are separate steps.                  *)
(* SpecIdempotence : one ReplicationSource and one KopiaMaintenance        *)
(*           reconciled over the same CronJobs.                            *)
(* SpecGroups : groupSourcesByRepository, applied to bounded sets of       *)
(*           matched sources.                                              *)
(***************************************************************************)
EXTENDS Integers, Sequences, FiniteSets, TLC

VARIABLES
    sources,     \* the ReplicationSources in the API server: <<namespace, name>> -> spec.kopia
    cronJobs,    \* the maintenance CronJobs in the API server: <<namespace, name>> -> CronJob
    lastOp,      \* the request or user operation that was processed last
    scenario,    \* progress of the documented first-wins scenario (A first, B second, A deleted)
    maintenanceList, \* the KopiaMaintenance policies, in the order List returns them
    arbitration,     \* the arbitration that was computed last, and its answer
    maintenances,    \* the direct-mode KopiaMaintenance objects: <<namespace, name>> -> object
    reconcileResult, \* what the last KopiaMaintenanceReconciler.Reconcile returned
    secrets,         \* the Secrets in the API server: <<namespace, name>> -> Secret
    policyStatus,    \* status of the cluster-scoped KopiaMaintenances: name -> status
    workers,         \* the reconcile each controller worker is in the middle of
    workQueue        \* the ReplicationSource keys queued for a retry

vars == <<sources, cronJobs, lastOp, scenario, maintenanceList, arbitration,
          maintenances, reconcileResult, secrets, policyStatus, workers, workQueue>>

raceVars == <<workers, workQueue>>

projectionVars == <<secrets, policyStatus>>

directVars == <<maintenances, reconcileResult>>

sourceVars == <<sources, cronJobs, lastOp, scenario>>

policyVars == <<maintenanceList, arbitration, directVars>>

(***************************************************************************)
(* Bounds of the model.                                                    *)
(***************************************************************************)
MaxSources == 2          \* ReplicationSources that exist at the same time

Namespaces == {"team-a", "team-b"}

SourceKeys == {<<"team-a", "source-a">>, <<"team-a", "source-c">>, <<"team-b", "source-b">>}

Repositories == {"shared-repo-secret", "app-repo-secret"}

Schedules == {"0 2 * * *", "0 4 * * *"}

\* The zero value of the source's spec.kopia.customCA struct, and a CA kept in a Secret.
ZeroCA == [secretName |-> "", configMapName |-> "", key |-> ""]

SecretCA == [secretName |-> "ca-secret", configMapName |-> "", key |-> "ca.crt"]

CustomCAs == {ZeroCA}

\* A nil *int32 history limit.
NoLimit == [present |-> FALSE, value |-> 0]

\* spec.kopia.maintenanceCronJob: a nil pointer is present = FALSE; enabled and
\* suspend are *bool, the history limits *int32, resources a pointer to the
\* resource requirements (named by a token).
NoMaintenanceCronJob ==
    [present |-> FALSE, enabled |-> "nil", schedule |-> "", suspend |-> "nil",
     successfulJobsHistoryLimit |-> NoLimit, failedJobsHistoryLimit |-> NoLimit,
     resources |-> "nil"]

\* spec.kopia.maintenanceIntervalDays: a nil *int32 is present = FALSE.
NoIntervalDays == [present |-> FALSE, days |-> 0]

\* The spec.kopia values a user may write.
AllSourceSpecs ==
    { [repository |-> r, customCA |-> ca, maintenanceCronJob |-> NoMaintenanceCronJob,
       maintenanceIntervalDays |-> NoIntervalDays] : r \in Repositories, ca \in CustomCAs }
    \cup
    { [repository |-> r, customCA |-> ca,
       maintenanceCronJob |-> [NoMaintenanceCronJob EXCEPT
                                 !.present = TRUE, !.enabled = e, !.schedule = s],
       maintenanceIntervalDays |-> NoIntervalDays] :
        r \in Repositories, ca \in CustomCAs, e \in {"true", "false"}, s \in Schedules }

\* The values written for source k: source-c may use either repository, the
\* other sources use the shared one.
SourceSpecs(k) ==
    { spec \in AllSourceSpecs :
        k # <<"team-a", "source-c">> => spec.repository = "shared-repo-secret" }

(***************************************************************************)
(* Program constants.                                                      *)
(***************************************************************************)
defaultMaintenanceSchedule == "0 2 * * *"

maintenanceLabelKey == "volsync.backube/kopia-maintenance"

maintenanceRepositoryLabel == "volsync.backube/repository-hash"

maintenanceNamespaceLabel == "volsync.backube/namespace"

maintenanceRepositoryAnnotation == "volsync.backube/repository-config"

createdByLabel == "volsync.backube/created-by"

sourceNamespaceLabel == "volsync.backube/source-namespace"

sourceNameAnnotation == "volsync.backube/source-name"

scheduleConflictAnnotation == "volsync.backube/schedule-conflict"

maxCronJobNameLength == 52

cronJobNamePrefix == "kopia-maintenance-"

cronJobNamePrefixLen == 18

hashHexLen == 16

(***************************************************************************)
(* RepositoryConfig and its hash.                                          *)
(***************************************************************************)

\* json.Marshal of a CustomCASpec: its fields in declaration order.
MarshalCustomCA(ca) == <<ca.secretName, ca.configMapName, ca.key>>

\* json.Marshal(rc): the struct's fields in declaration order under their json
\* tags; customCA is left out when the pointer is nil, schedule when it is "".
MarshalRepositoryConfig(rc) ==
    <<  <<"repository", rc.repository>> >>
    \o (IF rc.customCA.isNil THEN << >>
        ELSE << <<"customCA", MarshalCustomCA(rc.customCA)>> >>)
    \o << <<"namespace", rc.namespace>> >>
    \o (IF rc.schedule = "" THEN << >> ELSE << <<"schedule", rc.schedule>> >>)

\* Mutant: the hash covers only the repository secret name and the custom CA.
HashRepositoryAndCAOnly(rc) ==
    [sha256 |-> << <<"repository", rc.repository>> >>
                \o (IF rc.customCA.isNil THEN << >>
                    ELSE << <<"customCA", MarshalCustomCA(rc.customCA)>> >>),
     len |-> hashHexLen]

\* Mutant: the hash leaves the custom CA out.
HashWithoutCustomCA(rc) ==
    [sha256 |-> << <<"repository", rc.repository>>, <<"namespace", rc.namespace>> >>
                \o (IF rc.schedule = "" THEN << >> ELSE << <<"schedule", rc.schedule>> >>),
     len |-> hashHexLen]

\* RepositoryConfig.Hash: the first 16 hex characters of the SHA-256 of the
\* marshalled struct.  The digest is kept symbolic: equal data, equal digest.
Hash(rc) == [sha256 |-> MarshalRepositoryConfig(rc), len |-> hashHexLen]

\* generateCronJobName: "kopia-maintenance-" + hash, cut to maxCronJobNameLength.
generateCronJobName(repoHash) ==
    IF cronJobNamePrefixLen + repoHash.len > maxCronJobNameLength
    THEN [prefix |-> cronJobNamePrefix,
          hash |-> [sha256 |-> repoHash.sha256,
                    len |-> maxCronJobNameLength - cronJobNamePrefixLen]]
    ELSE [prefix |-> cronJobNamePrefix, hash |-> repoHash]

(***************************************************************************)
(* What MaintenanceManager reads from a ReplicationSource.                 *)
(***************************************************************************)

\* isMaintenanceEnabled
isMaintenanceEnabled(spec) ==
    IF spec.maintenanceCronJob.present
    THEN IF spec.maintenanceCronJob.enabled # "nil"
         THEN spec.maintenanceCronJob.enabled = "true"
         ELSE TRUE
    ELSE IF spec.maintenanceIntervalDays.present /\ spec.maintenanceIntervalDays.days = 0
         THEN FALSE
         ELSE TRUE

\* getMaintenanceSchedule
getMaintenanceSchedule(spec) ==
    IF spec.maintenanceCronJob.present /\ spec.maintenanceCronJob.schedule # ""
    THEN spec.maintenanceCronJob.schedule
    ELSE IF spec.maintenanceIntervalDays.present /\ spec.maintenanceIntervalDays.days > 0
         THEN LET days == spec.maintenanceIntervalDays.days IN
              IF days = 1 THEN "0 2 * * *"
              ELSE IF days = 7 THEN "0 2 * * 0"
              ELSE IF days = 30 \/ days = 31 THEN "0 2 1 * *"
              ELSE "0 2 * * *"
         ELSE defaultMaintenanceSchedule

\* The RepositoryConfig built in ReconcileMaintenanceForSource and in
\* CleanupOrphanedMaintenanceCronJobs: CustomCA is the address of the source's
\* struct field, so the pointer is never nil.
RepoConfigOf(key, spec) ==
    [repository |-> spec.repository,
     customCA   |-> [isNil |-> FALSE,
                     secretName |-> spec.customCA.secretName,
                     configMapName |-> spec.customCA.configMapName,
                     key |-> spec.customCA.key],
     namespace  |-> key[1],
     schedule   |-> getMaintenanceSchedule(spec)]

(***************************************************************************)
(* CronJobs.                                                               *)
(***************************************************************************)

\* A label or annotation read from a map: "" when the key is absent.
MapGet(m, k) == IF k \in DOMAIN m THEN m[k] ELSE ""

\* buildMaintenanceVolumes: the custom-ca volume of the pod template.
buildMaintenanceVolumes(rc) ==
    IF rc.customCA.isNil THEN [kind |-> "none", name |-> ""]
    ELSE IF rc.customCA.secretName # "" THEN [kind |-> "secret", name |-> rc.customCA.secretName]
    ELSE IF rc.customCA.configMapName # "" THEN [kind |-> "configMap", name |-> rc.customCA.configMapName]
    ELSE [kind |-> "none", name |-> ""]

\* Mutant: one CronJob per repository, shared by all namespaces and schedules.
SharedCronJobKey(rc) ==
    <<"volsync-system", generateCronJobName(HashRepositoryAndCAOnly(rc))>>

\* The namespace and name buildMaintenanceCronJob gives the CronJob.
CronJobKey(rc) == <<rc.namespace, generateCronJobName(Hash(rc))>>

\* isSuspended: the owner's maintenanceCronJob.suspend, false by default.
isSuspended(owner) ==
    IF owner.spec.maintenanceCronJob.present /\ owner.spec.maintenanceCronJob.suspend # "nil"
    THEN owner.spec.maintenanceCronJob.suspend
    ELSE "false"

\* getSuccessfulJobsHistoryLimit: the owner's limit, 3 by default.
getSuccessfulJobsHistoryLimit(owner) ==
    IF /\ owner.spec.maintenanceCronJob.present
       /\ owner.spec.maintenanceCronJob.successfulJobsHistoryLimit.present
    THEN owner.spec.maintenanceCronJob.successfulJobsHistoryLimit.value
    ELSE 3

\* getFailedJobsHistoryLimit: the owner's limit, 1 by default.
getFailedJobsHistoryLimit(owner) ==
    IF /\ owner.spec.maintenanceCronJob.present
       /\ owner.spec.maintenanceCronJob.failedJobsHistoryLimit.present
    THEN owner.spec.maintenanceCronJob.failedJobsHistoryLimit.value
    ELSE 1

\* getMaintenanceResources: the owner's resources, the built-in ones by default.
getMaintenanceResources(owner) ==
    IF owner.spec.maintenanceCronJob.present /\ owner.spec.maintenanceCronJob.resources # "nil"
    THEN owner.spec.maintenanceCronJob.resources
    ELSE "default"

\* buildMaintenanceCronJob: the fields of the CronJob the model follows.
buildMaintenanceCronJob(rc, owner) ==
    [labels |-> (maintenanceLabelKey :> "true")
                @@ (maintenanceRepositoryLabel :> Hash(rc))
                @@ (maintenanceNamespaceLabel :> rc.namespace)
                @@ (createdByLabel :> owner.name),
     annotations |-> (maintenanceRepositoryAnnotation :> rc.repository),
     schedule |-> rc.schedule,
     suspend |-> isSuspended(owner),
     successfulJobsHistoryLimit |-> getSuccessfulJobsHistoryLimit(owner),
     failedJobsHistoryLimit |-> getFailedJobsHistoryLimit(owner),
     resources |-> getMaintenanceResources(owner),
     caVolume |-> buildMaintenanceVolumes(rc)]

\* An ensure that deletes the CronJob it finds instead of keeping it, so that
\* every second pass undoes the first.
ensureMaintenanceCronJobReplacing(cjs, rc, owner) ==
    IF CronJobKey(rc) \notin DOMAIN cjs
    THEN cjs @@ (CronJobKey(rc) :> buildMaintenanceCronJob(rc, owner))
    ELSE [c \in DOMAIN cjs \ {CronJobKey(rc)} |-> cjs[c]]

\* ensureMaintenanceCronJob: Get by name; Create when not found; otherwise
\* Update the schedule when it differs, and nothing else.
ensureMaintenanceCronJob(cjs, rc, owner) ==
    LET k  == CronJobKey(rc)
        cj == buildMaintenanceCronJob(rc, owner)
    IN  IF k \notin DOMAIN cjs
        THEN cjs @@ (k :> cj)
        ELSE IF cjs[k].schedule # cj.schedule
             THEN [cjs EXCEPT ![k].schedule = cj.schedule]
             ELSE cjs

\* MaintenanceManager.ReconcileMaintenanceForSource
ReconcileMaintenanceForSource(cjs, key, spec) ==
    IF ~isMaintenanceEnabled(spec)
    THEN cjs
    ELSE ensureMaintenanceCronJob(cjs, RepoConfigOf(key, spec), [name |-> key[2], spec |-> spec])

\* The hashes CleanupOrphanedMaintenanceCronJobs keeps: one per enabled
\* source of the namespace.
requiredHashes(srcs, namespace) ==
    { Hash(RepoConfigOf(k, srcs[k])) :
        k \in { x \in DOMAIN srcs : x[1] = namespace /\ isMaintenanceEnabled(srcs[x]) } }

\* MaintenanceManager.CleanupOrphanedMaintenanceCronJobs(namespace)
CleanupOrphanedMaintenanceCronJobs(cjs, srcs, namespace) ==
    LET listed  == { k \in DOMAIN cjs :
                       k[1] = namespace /\ MapGet(cjs[k].labels, maintenanceLabelKey) = "true" }
        deleted == { k \in listed :
                       \/ maintenanceRepositoryLabel \notin DOMAIN cjs[k].labels
                       \/ cjs[k].labels[maintenanceRepositoryLabel]
                              \notin requiredHashes(srcs, namespace) }
    IN  [k \in DOMAIN cjs \ deleted |-> cjs[k]]

(***************************************************************************)
(* KopiaMaintenanceController.                                             *)
(***************************************************************************)

\* reconcileReplicationSource: skip a source whose maintenanceCronJob.enabled
\* is false, otherwise have the manager ensure the CronJob.
reconcileReplicationSource(cjs, key, spec) ==
    IF spec.maintenanceCronJob.present /\ spec.maintenanceCronJob.enabled = "false"
    THEN cjs
    ELSE ReconcileMaintenanceForSource(cjs, key, spec)

\* cleanupOrphanedCronJobs(namespace): a CronJob of the namespace is deleted
\* when the ReplicationSource named by its source-namespace label and
\* source-name annotation is gone; one without them is skipped.
cleanupOrphanedCronJobs(cjs, srcs, namespace) ==
    LET listed  == { k \in DOMAIN cjs :
                       k[1] = namespace /\ MapGet(cjs[k].labels, maintenanceLabelKey) = "true" }
        deleted == { k \in listed :
                       LET sourceNS   == MapGet(cjs[k].labels, sourceNamespaceLabel)
                           sourceName == MapGet(cjs[k].annotations, sourceNameAnnotation)
                       IN  /\ sourceNS # ""
                           /\ sourceName # ""
                           /\ <<sourceNS, sourceName>> \notin DOMAIN srcs }
    IN  [k \in DOMAIN cjs \ deleted |-> cjs[k]]

\* reconcileAllReplicationSources: every listed ReplicationSource is
\* reconciled, in the order of the list.
RECURSIVE reconcileAllReplicationSources(_, _, _)
reconcileAllReplicationSources(cjs, srcs, rsList) ==
    IF rsList = << >> THEN cjs
    ELSE reconcileAllReplicationSources(
             reconcileReplicationSource(cjs, Head(rsList), srcs[Head(rsList)]),
             srcs, Tail(rsList))

\* The orders in which List can return the ReplicationSources.
ListOrdersOf(srcs) ==
    { rsList \in [1..Cardinality(DOMAIN srcs) -> DOMAIN srcs] :
         \A i, j \in DOMAIN rsList : i # j => rsList[i] # rsList[j] }

(***************************************************************************)
(* The documented first-wins scenario, followed as the system runs.        *)
(***************************************************************************)
SourceA == <<"team-a", "source-a">>

SourceB == <<"team-b", "source-b">>

ScenarioSpec(s) ==
    [repository |-> "shared-repo-secret", customCA |-> ZeroCA,
     maintenanceCronJob |-> [NoMaintenanceCronJob EXCEPT
                               !.present = TRUE, !.enabled = "true", !.schedule = s],
     maintenanceIntervalDays |-> NoIntervalDays]

\* No arbitration has been computed.
NoArbitration == [op |-> "none", source |-> "", policy |-> "", result |-> ""]

\* No KopiaMaintenance has been reconciled.
NoResult ==
    [key |-> <<"", "">>, requeue |-> FALSE, requeueAfter |-> "0s", err |-> "",
     cleanup |-> "not-run"]

(***************************************************************************)
(* Actions.                                                                *)
(***************************************************************************)
Init ==
    /\ sources = << >>
    /\ cronJobs = << >>
    /\ lastOp = [op |-> "none", key |-> <<"", "">>]
    /\ scenario = "start"
    /\ maintenanceList = << >>
    /\ arbitration = NoArbitration
    /\ maintenances = << >>
    /\ reconcileResult = NoResult
    /\ secrets = << >>
    /\ policyStatus = << >>
    /\ workers = << >>
    /\ workQueue = {}

\* A user creates a ReplicationSource.
CreateSource(k, spec) ==
    /\ k \notin DOMAIN sources
    /\ Cardinality(DOMAIN sources) < MaxSources
    /\ sources' = sources @@ (k :> spec)
    /\ lastOp' = [op |-> "Create", key |-> k]
    /\ scenario' = IF k = SourceB /\ scenario \in {"start", "A-reconciled"}
                   THEN scenario ELSE "start"
    /\ UNCHANGED <<raceVars, projectionVars, cronJobs, policyVars>>

\* A user changes a ReplicationSource's spec.
UpdateSource(k, spec) ==
    /\ k \in DOMAIN sources
    /\ spec # sources[k]
    /\ sources' = [sources EXCEPT ![k] = spec]
    /\ lastOp' = [op |-> "Update", key |-> k]
    /\ scenario' = "start"
    /\ UNCHANGED <<raceVars, projectionVars, cronJobs, policyVars>>

\* A user deletes a ReplicationSource.
DeleteSource(k) ==
    /\ k \in DOMAIN sources
    /\ sources' = [x \in DOMAIN sources \ {k} |-> sources[x]]
    /\ lastOp' = [op |-> "Delete", key |-> k]
    /\ scenario' = IF k = SourceA /\ scenario = "B-reconciled" /\ SourceB \in DOMAIN sources
                   THEN "A-deleted" ELSE "start"
    /\ UNCHANGED <<raceVars, projectionVars, cronJobs, policyVars>>

\* KopiaMaintenanceController.Reconcile(req): a source that is not found
\* triggers the orphan cleanup of its namespace; one that is found is reconciled.
Reconcile(k) ==
    /\ cronJobs' = IF k \notin DOMAIN sources
                   THEN cleanupOrphanedCronJobs(cronJobs, sources, k[1])
                   ELSE reconcileReplicationSource(cronJobs, k, sources[k])
    /\ lastOp' = [op |-> "Reconcile", key |-> k]
    /\ scenario' =
         IF /\ scenario = "start" /\ k = SourceA /\ DOMAIN cronJobs = {}
            /\ DOMAIN sources \subseteq {SourceA, SourceB}
            /\ SourceA \in DOMAIN sources
            /\ sources[SourceA] = ScenarioSpec("0 2 * * *")
         THEN "A-reconciled"
         ELSE IF /\ scenario = "A-reconciled" /\ k = SourceB
                 /\ SourceB \in DOMAIN sources
                 /\ sources[SourceB] = ScenarioSpec("0 4 * * *")
         THEN "B-reconciled"
         ELSE scenario
    /\ UNCHANGED <<raceVars, projectionVars, sources, policyVars>>

\* MaintenanceManager.CleanupOrphanedMaintenanceCronJobs(namespace)
CleanupOrphaned(ns) ==
    /\ cronJobs' = CleanupOrphanedMaintenanceCronJobs(cronJobs, sources, ns)
    /\ lastOp' = [op |-> "Cleanup", key |-> <<ns, "">>]
    /\ UNCHANGED <<raceVars, projectionVars, sources, scenario, policyVars>>

\* KopiaMaintenanceController.reconcileAllReplicationSources
ReconcileAll(rsList) ==
    /\ cronJobs' = reconcileAllReplicationSources(cronJobs, sources, rsList)
    /\ lastOp' = [op |-> "ReconcileAll", key |-> <<"", "">>]
    /\ scenario' = IF scenario \in {"B-reconciled", "A-deleted"} THEN scenario ELSE "start"
    /\ UNCHANGED <<raceVars, projectionVars, sources, policyVars>>

Next ==
    \/ \E k \in SourceKeys : \E spec \in SourceSpecs(k) : CreateSource(k, spec)
    \/ \E k \in SourceKeys : \E spec \in SourceSpecs(k) : UpdateSource(k, spec)
    \/ \E k \in SourceKeys : DeleteSource(k)
    \/ \E k \in SourceKeys : Reconcile(k)
    \/ \E ns \in Namespaces : CleanupOrphaned(ns)
    \/ \E rsList \in ListOrdersOf(sources) : ReconcileAll(rsList)

Spec == Init /\ [][Next]_vars

(***************************************************************************)
(* The settings of one source's CronJob: the same controller, followed for *)
(* one ReplicationSource whose maintenanceCronJob settings change.         *)
(***************************************************************************)
\* The maintenanceCronJob values a user may write for the source.
SettingsSpecs ==
    { [repository |-> "shared-repo-secret", customCA |-> ZeroCA,
       maintenanceCronJob |->
           [present |-> TRUE, enabled |-> "true", schedule |-> s, suspend |-> su,
            successfulJobsHistoryLimit |-> sl, failedJobsHistoryLimit |-> fl,
            resources |-> r],
       maintenanceIntervalDays |-> NoIntervalDays] :
         s \in Schedules, su \in {"nil", "true"},
         sl \in {NoLimit, [present |-> TRUE, value |-> 5]},
         fl \in {NoLimit, [present |-> TRUE, value |-> 2]},
         r \in {"nil", "custom"} }

NextSettings ==
    \/ \E spec \in SettingsSpecs : CreateSource(SourceA, spec)
    \/ \E spec \in SettingsSpecs : UpdateSource(SourceA, spec)
    \/ DeleteSource(SourceA)
    \/ Reconcile(SourceA)
    \/ CleanupOrphaned("team-a")

SpecSettings == Init /\ [][NextSettings]_vars

(***************************************************************************)
(* Policy arbitration: which KopiaMaintenance serves a ReplicationSource.  *)
(***************************************************************************)
MaxPolicies == 3         \* KopiaMaintenance policies that exist at the same time

PolicyNames == {"alpha", "alpha-2", "beta"}

Priorities == {0, 10}

\* Go strings are byte sequences: the characters of every string of the model
\* and the byte value of every character.
CharsOf ==
    ("" :> << >>) @@
    ("*" :> <<"*">>) @@
    ("shared-repo-secret" :> <<"s", "h", "a", "r", "e", "d", "-", "r", "e", "p", "o", "-", "s", "e", "c", "r", "e", "t">>) @@
    ("app-repo-secret" :> <<"a", "p", "p", "-", "r", "e", "p", "o", "-", "s", "e", "c", "r", "e", "t">>) @@
    ("shared-*" :> <<"s", "h", "a", "r", "e", "d", "-", "*">>) @@
    ("*-secret" :> <<"*", "-", "s", "e", "c", "r", "e", "t">>) @@
    ("ca-secret" :> <<"c", "a", "-", "s", "e", "c", "r", "e", "t">>) @@
    ("alpha" :> <<"a", "l", "p", "h", "a">>) @@
    ("alpha-2" :> <<"a", "l", "p", "h", "a", "-", "2">>) @@
    ("beta" :> <<"b", "e", "t", "a">>) @@
    ("daily" :> <<"d", "a", "i", "l", "y">>) @@
    ("*repo*" :> <<"*", "r", "e", "p", "o", "*">>) @@
    ("shared-*-secret" :> <<"s", "h", "a", "r", "e", "d", "-", "*", "-", "s", "e", "c", "r", "e", "t">>) @@
    ("app-repo-secre?" :> <<"a", "p", "p", "-", "r", "e", "p", "o", "-", "s", "e", "c", "r", "e", "?">>) @@
    ("kopia-maint-" :> <<"k", "o", "p", "i", "a", "-", "m", "a", "i", "n", "t", "-">>) @@
    ("kopia-maintenance-" :> <<"k", "o", "p", "i", "a", "-", "m", "a", "i", "n", "t", "e", "n", "a", "n", "c", "e", "-">>) @@
    ("nightly-maintenance-of-the-shared-" :>
        <<"n", "i", "g", "h", "t", "l", "y", "-", "m", "a", "i", "n", "t", "e", "n", "a",
         "n", "c", "e", "-", "o", "f", "-", "t", "h", "e", "-", "s", "h", "a", "r", "e",
         "d", "-">>) @@
    ("nightly-maintenance-of-the-shared-b" :>
        <<"n", "i", "g", "h", "t", "l", "y", "-", "m", "a", "i", "n", "t", "e", "n", "a",
         "n", "c", "e", "-", "o", "f", "-", "t", "h", "e", "-", "s", "h", "a", "r", "e",
         "d", "-", "b">>) @@
    ("nightly-maintenance-of-the-shared-backup-repository-nightly-maintenance-of-the-shared-backup-repository-nightly-maintenance-of-the-shared-backup-repository-nightly-maintenance-of-the-shared-backup-rea" :>
        <<"n", "i", "g", "h", "t", "l", "y", "-", "m", "a", "i", "n", "t", "e", "n", "a",
         "n", "c", "e", "-", "o", "f", "-", "t", "h", "e", "-", "s", "h", "a", "r", "e",
         "d", "-", "b", "a", "c", "k", "u", "p", "-", "r", "e", "p", "o", "s", "i", "t",
         "o", "r", "y", "-", "n", "i", "g", "h", "t", "l", "y", "-", "m", "a", "i", "n",
         "t", "e", "n", "a", "n", "c", "e", "-", "o", "f", "-", "t", "h", "e", "-", "s",
         "h", "a", "r", "e", "d", "-", "b", "a", "c", "k", "u", "p", "-", "r", "e", "p",
         "o", "s", "i", "t", "o", "r", "y", "-", "n", "i", "g", "h", "t", "l", "y", "-",
         "m", "a", "i", "n", "t", "e", "n", "a", "n", "c", "e", "-", "o", "f", "-", "t",
         "h", "e", "-", "s", "h", "a", "r", "e", "d", "-", "b", "a", "c", "k", "u", "p",
         "-", "r", "e", "p", "o", "s", "i", "t", "o", "r", "y", "-", "n", "i", "g", "h",
         "t", "l", "y", "-", "m", "a", "i", "n", "t", "e", "n", "a", "n", "c", "e", "-",
         "o", "f", "-", "t", "h", "e", "-", "s", "h", "a", "r", "e", "d", "-", "b", "a",
         "c", "k", "u", "p", "-", "r", "e", "a">>) @@
    ("nightly-maintenance-of-the-shared-backup-repository-nightly-maintenance-of-the-shared-backup-repository-nightly-maintenance-of-the-shared-backup-repository-nightly-maintenance-of-the-shared-backup-reb" :>
        <<"n", "i", "g", "h", "t", "l", "y", "-", "m", "a", "i", "n", "t", "e", "n", "a",
         "n", "c", "e", "-", "o", "f", "-", "t", "h", "e", "-", "s", "h", "a", "r", "e",
         "d", "-", "b", "a", "c", "k", "u", "p", "-", "r", "e", "p", "o", "s", "i", "t",
         "o", "r", "y", "-", "n", "i", "g", "h", "t", "l", "y", "-", "m", "a", "i", "n",
         "t", "e", "n", "a", "n", "c", "e", "-", "o", "f", "-", "t", "h", "e", "-", "s",
         "h", "a", "r", "e", "d", "-", "b", "a", "c", "k", "u", "p", "-", "r", "e", "p",
         "o", "s", "i", "t", "o", "r", "y", "-", "n", "i", "g", "h", "t", "l", "y", "-",
         "m", "a", "i", "n", "t", "e", "n", "a", "n", "c", "e", "-", "o", "f", "-", "t",
         "h", "e", "-", "s", "h", "a", "r", "e", "d", "-", "b", "a", "c", "k", "u", "p",
         "-", "r", "e", "p", "o", "s", "i", "t", "o", "r", "y", "-", "n", "i", "g", "h",
         "t", "l", "y", "-", "m", "a", "i", "n", "t", "e", "n", "a", "n", "c", "e", "-",
         "o", "f", "-", "t", "h", "e", "-", "s", "h", "a", "r", "e", "d", "-", "b", "a",
         "c", "k", "u", "p", "-", "r", "e", "b">>)

ByteOf ==
    ("*" :> 42) @@ ("-" :> 45) @@ ("2" :> 50) @@ ("a" :> 97) @@ ("b" :> 98) @@ ("c" :> 99) @@
    ("d" :> 100) @@ ("e" :> 101) @@ ("h" :> 104) @@ ("i" :> 105) @@ ("l" :> 108) @@
    ("o" :> 111) @@ ("p" :> 112) @@ ("r" :> 114) @@ ("s" :> 115) @@ ("t" :> 116) @@ ("y" :> 121)

\* Go's s < t on strings: bytewise lexicographic order.
RECURSIVE BytesLess(_, _)
BytesLess(s, t) ==
    IF t = << >> THEN FALSE
    ELSE IF s = << >> THEN TRUE
    ELSE IF ByteOf[Head(s)] # ByteOf[Head(t)] THEN ByteOf[Head(s)] < ByteOf[Head(t)]
    ELSE BytesLess(Tail(s), Tail(t))

StringLess(s, t) == BytesLess(CharsOf[s], CharsOf[t])

\* strings.HasPrefix, strings.HasSuffix, strings.Contains
HasPrefix(s, prefix) ==
    /\ Len(prefix) <= Len(s)
    /\ SubSeq(s, 1, Len(prefix)) = prefix

HasSuffix(s, suffix) ==
    /\ Len(suffix) <= Len(s)
    /\ SubSeq(s, Len(s) - Len(suffix) + 1, Len(s)) = suffix

Contains(s, substr) ==
    \E i \in 1..(Len(s) + 1) :
        /\ i + Len(substr) - 1 <= Len(s)
        /\ SubSeq(s, i, i + Len(substr) - 1) = substr

\* strings.ReplaceAll(s, old, new) for a one-character old
RECURSIVE ReplaceAll(_, _, _)
ReplaceAll(s, old, new) ==
    IF s = << >> THEN << >>
    ELSE (IF Head(s) = old THEN new ELSE <<Head(s)>>) \o ReplaceAll(Tail(s), old, new)

\* strings.Trim(s, cutset)
RECURSIVE TrimLeft(_, _)
TrimLeft(s, cutset) ==
    IF s # << >> /\ Head(s) \in cutset THEN TrimLeft(Tail(s), cutset) ELSE s

RECURSIVE TrimRight(_, _)
TrimRight(s, cutset) ==
    IF s # << >> /\ s[Len(s)] \in cutset THEN TrimRight(SubSeq(s, 1, Len(s) - 1), cutset) ELSE s

Trim(s, cutset) == TrimRight(TrimLeft(s, cutset), cutset)

\* Selectors a policy can carry.
NoNamespaceSelector ==
    [present |-> FALSE, matchNames |-> << >>, excludeNames |-> << >>, matchLabels |-> << >>]

NoCustomCASelector == [present |-> FALSE, secretName |-> "", configMapName |-> ""]

NoRepositorySelector ==
    [present |-> FALSE, repository |-> "", namespaceSelector |-> NoNamespaceSelector,
     customCA |-> NoCustomCASelector, labels |-> << >>]

NoRepository == [present |-> FALSE, repository |-> ""]

WithNamespaces ==
    [present |-> TRUE, matchNames |-> <<"team-a">>, excludeNames |-> << >>, matchLabels |-> << >>]

RepositorySelectors ==
    { [present |-> TRUE, repository |-> pat, namespaceSelector |-> NoNamespaceSelector,
       customCA |-> NoCustomCASelector, labels |-> << >>] :
         pat \in {"*", "shared-repo-secret", "shared-*"} }
    \cup
    { [present |-> TRUE, repository |-> "", namespaceSelector |-> WithNamespaces,
       customCA |-> NoCustomCASelector, labels |-> << >>] }

\* A policy is in selector mode or in direct repository mode.
PolicySpecs ==
    { [priority |-> prio, repositorySelector |-> sel, repository |-> NoRepository] :
         prio \in Priorities, sel \in RepositorySelectors }
    \cup
    { [priority |-> prio, repositorySelector |-> NoRepositorySelector,
       repository |-> [present |-> TRUE, repository |-> "shared-repo-secret"]] :
         prio \in Priorities }

Policies == { [name |-> n, spec |-> s] : n \in PolicyNames, s \in PolicySpecs }

\* The ReplicationSources policies are arbitrated for.
TargetSources ==
    { [namespace |-> k[1], kopia |-> TRUE, repository |-> k[2], customCA |-> ZeroCA,
       labels |-> << >>] :
         k \in { <<"team-a", "shared-repo-secret">>, <<"team-b", "shared-repo-secret">>,
                 <<"team-a", "app-repo-secret">> } }

\* The labels of the Namespace objects.
NamespaceLabels ==
    [ns \in Namespaces |-> IF ns = "team-a" THEN ("env" :> "prod") ELSE ("env" :> "dev")]

\* KopiaMaintenance.IsDirectRepositoryMode
IsDirectRepositoryMode(maintenance) == maintenance.spec.repository.present

\* EnhancedMaintenanceManager.matchesPattern: "*" or equality.
matchesPattern(str, pattern) ==
    IF pattern = "*" THEN TRUE ELSE str = pattern

\* matchesNamespace, the same code in both matchers.
matchesNamespace(namespace, selector) ==
    IF \E i \in DOMAIN selector.excludeNames : selector.excludeNames[i] = namespace
    THEN FALSE
    ELSE IF /\ Len(selector.matchNames) > 0
            /\ ~ \E i \in DOMAIN selector.matchNames : selector.matchNames[i] = namespace
    THEN FALSE
    ELSE IF DOMAIN selector.matchLabels # {}
    THEN /\ namespace \in DOMAIN NamespaceLabels
         /\ \A key \in DOMAIN selector.matchLabels :
               MapGet(NamespaceLabels[namespace], key) = selector.matchLabels[key]
    ELSE TRUE

matchesCustomCA(ca, selector) ==
    IF /\ selector.secretName # "" /\ ca.secretName # ""
       /\ ~ matchesPattern(ca.secretName, selector.secretName)
    THEN FALSE
    ELSE IF /\ selector.configMapName # "" /\ ca.configMapName # ""
            /\ ~ matchesPattern(ca.configMapName, selector.configMapName)
    THEN FALSE
    ELSE TRUE

\* matchesLabels, the same code in both matchers.
matchesLabels(sourceLabels, selectorLabels) ==
    \A key \in DOMAIN selectorLabels : MapGet(sourceLabels, key) = selectorLabels[key]

\* EnhancedMaintenanceManager.maintenanceMatches
maintenanceMatches(maintenance, source) ==
    IF ~ source.kopia THEN FALSE
    ELSE IF IsDirectRepositoryMode(maintenance) THEN FALSE
    ELSE IF ~ maintenance.spec.repositorySelector.present THEN FALSE
    ELSE LET selector == maintenance.spec.repositorySelector
         IN  IF /\ selector.repository # ""
                /\ ~ matchesPattern(source.repository, selector.repository)
             THEN FALSE
             ELSE IF /\ selector.namespaceSelector.present
                     /\ ~ matchesNamespace(source.namespace, selector.namespaceSelector)
             THEN FALSE
             ELSE IF /\ selector.customCA.present
                     /\ ~ matchesCustomCA(source.customCA, selector.customCA)
             THEN FALSE
             ELSE IF /\ DOMAIN selector.labels # {}
                     /\ ~ matchesLabels(source.labels, selector.labels)
             THEN FALSE
             ELSE TRUE

\* The less function findBestMatchingMaintenanceConfig hands to sort.Slice,
\* without its tie-break on the name.
candidateLessByPriorityOnly(a, b) ==
    a.spec.priority > b.spec.priority

\* The less function findBestMatchingMaintenanceConfig hands to sort.Slice:
\* higher priority first, then the smaller name.
candidateLess(a, b) ==
    IF a.spec.priority = b.spec.priority
    THEN StringLess(a.name, b.name)
    ELSE a.spec.priority > b.spec.priority

\* sort.Slice on a slice of fewer than 12 elements is an insertion sort: each
\* element moves left while it is less than its left neighbour.
RECURSIVE insertLeft(_, _)
insertLeft(sorted, x) ==
    IF sorted # << >> /\ candidateLess(x, sorted[Len(sorted)])
    THEN insertLeft(SubSeq(sorted, 1, Len(sorted) - 1), x) \o <<sorted[Len(sorted)]>>
    ELSE sorted \o <<x>>

RECURSIVE sortSlice(_)
sortSlice(candidates) ==
    IF candidates = << >> THEN << >>
    ELSE insertLeft(sortSlice(SubSeq(candidates, 1, Len(candidates) - 1)),
                    candidates[Len(candidates)])

\* The candidates loop of findBestMatchingMaintenanceConfig, in list order.
RECURSIVE matchingCandidates(_, _)
matchingCandidates(items, source) ==
    IF items = << >> THEN << >>
    ELSE (IF /\ ~ IsDirectRepositoryMode(Head(items))
             /\ maintenanceMatches(Head(items), source)
          THEN <<Head(items)>> ELSE << >>)
         \o matchingCandidates(Tail(items), source)

\* EnhancedMaintenanceManager.findBestMatchingMaintenanceConfig: the name of
\* the policy returned, "nil" when it returns no policy.
findBestMatchingMaintenanceConfig(items, source) ==
    LET candidates == matchingCandidates(items, source)
    IN  IF Len(candidates) = 0 THEN "nil"
        ELSE sortSlice(candidates)[1].name

\* KopiaMaintenanceReconciler.matchesPattern: the wildcard pattern is turned
\* into an anchored expression and matched by prefix, suffix or substring.
reconcilerMatchesPattern(str, pattern) ==
    IF pattern = "*" THEN TRUE
    ELSE LET p1 == ReplaceAll(CharsOf[pattern], "*", <<".", "*">>)
             p2 == ReplaceAll(p1, "?", <<".">>)
             p3 == <<"^">> \o p2 \o <<"$">>
             s  == CharsOf[str]
         IN  IF HasPrefix(p3, <<"^", ".", "*">>) /\ HasSuffix(p3, <<".", "*", "$">>)
             THEN Contains(s, SubSeq(p3, 4, Len(p3) - 3))
             ELSE IF HasPrefix(p3, <<"^", ".", "*">>)
             THEN HasSuffix(s, SubSeq(p3, 4, Len(p3) - 1))
             ELSE IF HasSuffix(p3, <<".", "*", "$">>)
             THEN HasPrefix(s, SubSeq(p3, 2, Len(p3) - 3))
             ELSE s = Trim(p3, {"^", "$"})

reconcilerMatchesCustomCA(ca, selector) ==
    IF /\ selector.secretName # "" /\ ca.secretName # ""
       /\ ~ reconcilerMatchesPattern(ca.secretName, selector.secretName)
    THEN FALSE
    ELSE IF /\ selector.configMapName # "" /\ ca.configMapName # ""
            /\ ~ reconcilerMatchesPattern(ca.configMapName, selector.configMapName)
    THEN FALSE
    ELSE TRUE

\* KopiaMaintenanceReconciler.maintenanceMatchesSource: "true", "false", or
\* "panic" when it dereferences the nil RepositorySelector of a policy.
maintenanceMatchesSource(maintenance, source) ==
    IF ~ source.kopia THEN "false"
    ELSE IF ~ maintenance.spec.repositorySelector.present THEN "panic"
    ELSE LET selector == maintenance.spec.repositorySelector
         IN  IF /\ selector.repository # ""
                /\ ~ reconcilerMatchesPattern(source.repository, selector.repository)
             THEN "false"
             ELSE IF /\ selector.namespaceSelector.present
                     /\ ~ matchesNamespace(source.namespace, selector.namespaceSelector)
             THEN "false"
             ELSE IF /\ selector.customCA.present
                     /\ ~ reconcilerMatchesCustomCA(source.customCA, selector.customCA)
             THEN "false"
             ELSE IF /\ DOMAIN selector.labels # {}
                     /\ ~ matchesLabels(source.labels, selector.labels)
             THEN "false"
             ELSE "true"

\* KopiaMaintenanceReconciler.findConflictingMaintenances: every other policy.
RECURSIVE findConflictingMaintenances(_, _)
findConflictingMaintenances(items, current) ==
    IF items = << >> THEN << >>
    ELSE (IF Head(items).name # current.name THEN <<Head(items)>> ELSE << >>)
         \o findConflictingMaintenances(Tail(items), current)

\* KopiaMaintenanceReconciler.isHighestPriority: "true", "false" or "panic".
RECURSIVE isHighestPriority(_, _, _)
isHighestPriority(maintenance, source, others) ==
    IF others = << >> THEN "true"
    ELSE LET other == Head(others)
             m == maintenanceMatchesSource(other, source)
         IN  IF m = "panic" THEN "panic"
             ELSE IF m = "true" /\ other.spec.priority > maintenance.spec.priority
             THEN "false"
             ELSE IF /\ m = "true"
                     /\ other.spec.priority = maintenance.spec.priority
                     /\ StringLess(other.name, maintenance.name)
             THEN "false"
             ELSE isHighestPriority(maintenance, source, Tail(others))

\* matchesPattern of the API type: "*", or a "*" at the start, at the end,
\* or at both ends of the pattern; anything else is compared for equality.
apiMatchesPattern(str, pattern) ==
    LET s == CharsOf[str]
        p == CharsOf[pattern]
    IN  IF pattern = "*" THEN TRUE
        ELSE IF HasPrefix(p, <<"*">>) /\ HasSuffix(p, <<"*">>)
        THEN Contains(s, SubSeq(p, 2, Len(p) - 1))
        ELSE IF HasPrefix(p, <<"*">>)
        THEN HasSuffix(s, SubSeq(p, 2, Len(p)))
        ELSE IF HasSuffix(p, <<"*">>)
        THEN HasPrefix(s, SubSeq(p, 1, Len(p) - 1))
        ELSE str = pattern

\* KopiaMaintenance.matchesNamespace: exclude list and names; the labels of
\* the namespace are not looked at.
apiMatchesNamespace(maintenance, namespace) ==
    IF \/ ~ maintenance.spec.repositorySelector.present
       \/ ~ maintenance.spec.repositorySelector.namespaceSelector.present
    THEN TRUE
    ELSE LET ns == maintenance.spec.repositorySelector.namespaceSelector
         IN  IF \E i \in DOMAIN ns.excludeNames : ns.excludeNames[i] = namespace
             THEN FALSE
             ELSE IF /\ Len(ns.matchNames) > 0
                     /\ ~ \E i \in DOMAIN ns.matchNames : ns.matchNames[i] = namespace
             THEN FALSE
             ELSE TRUE

\* KopiaMaintenance.matchesCustomCA
apiMatchesCustomCA(maintenance, ca) ==
    IF ~ maintenance.spec.repositorySelector.present THEN TRUE
    ELSE LET selector == maintenance.spec.repositorySelector.customCA
         IN  IF /\ selector.secretName # "" /\ ca.secretName # ""
                /\ ~ apiMatchesPattern(ca.secretName, selector.secretName)
             THEN FALSE
             ELSE IF /\ selector.configMapName # "" /\ ca.configMapName # ""
                     /\ ~ apiMatchesPattern(ca.configMapName, selector.configMapName)
             THEN FALSE
             ELSE TRUE

\* KopiaMaintenance.matchesLabels
apiMatchesLabels(maintenance, sourceLabels) ==
    IF ~ maintenance.spec.repositorySelector.present THEN TRUE
    ELSE \A key \in DOMAIN maintenance.spec.repositorySelector.labels :
            MapGet(sourceLabels, key) = maintenance.spec.repositorySelector.labels[key]

\* KopiaMaintenance.Matches
Matches(maintenance, source) ==
    IF ~ source.kopia THEN FALSE
    ELSE IF IsDirectRepositoryMode(maintenance) THEN FALSE
    ELSE IF ~ maintenance.spec.repositorySelector.present THEN FALSE
    ELSE LET selector == maintenance.spec.repositorySelector
         IN  IF /\ selector.repository # ""
                /\ ~ apiMatchesPattern(source.repository, selector.repository)
             THEN FALSE
             ELSE IF /\ selector.namespaceSelector.present
                     /\ ~ apiMatchesNamespace(maintenance, source.namespace)
             THEN FALSE
             ELSE IF /\ selector.customCA.present
                     /\ ~ apiMatchesCustomCA(maintenance, source.customCA)
             THEN FALSE
             ELSE IF /\ DOMAIN selector.labels # {}
                     /\ ~ apiMatchesLabels(maintenance, source.labels)
             THEN FALSE
             ELSE TRUE

InitArb ==
    /\ sources = << >>
    /\ cronJobs = << >>
    /\ lastOp = [op |-> "none", key |-> <<"", "">>]
    /\ scenario = "start"
    /\ maintenanceList = << >>
    /\ arbitration = NoArbitration
    /\ maintenances = << >>
    /\ reconcileResult = NoResult
    /\ secrets = << >>
    /\ policyStatus = << >>
    /\ workers = << >>
    /\ workQueue = {}

\* A user creates a KopiaMaintenance; List may return it at any position.
CreateKopiaMaintenance(policy, i) ==
    /\ Len(maintenanceList) < MaxPolicies
    /\ \A j \in DOMAIN maintenanceList : maintenanceList[j].name # policy.name
    /\ maintenanceList' = SubSeq(maintenanceList, 1, i - 1) \o <<policy>>
                          \o SubSeq(maintenanceList, i, Len(maintenanceList))
    /\ arbitration' = NoArbitration
    /\ UNCHANGED <<raceVars, projectionVars, sourceVars, directVars>>

\* A user deletes a KopiaMaintenance.
DeleteKopiaMaintenance(i) ==
    /\ maintenanceList' = SubSeq(maintenanceList, 1, i - 1)
                          \o SubSeq(maintenanceList, i + 1, Len(maintenanceList))
    /\ arbitration' = NoArbitration
    /\ UNCHANGED <<raceVars, projectionVars, sourceVars, directVars>>

\* EnhancedMaintenanceManager.ReconcileMaintenanceForSource asks for the
\* policy that serves the source.
FindBestMatchingMaintenanceConfig(source) ==
    /\ source.kopia
    /\ arbitration' = [op |-> "findBestMatchingMaintenanceConfig", source |-> source,
                       policy |-> "",
                       result |-> findBestMatchingMaintenanceConfig(maintenanceList, source)]
    /\ UNCHANGED <<raceVars, projectionVars, sourceVars, maintenanceList, directVars>>

\* KopiaMaintenanceReconciler.findMatchingSources, for one source: a
\* selector-mode policy that matches the source asks whether it is the one
\* that serves it.
IsHighestPriority(i, source) ==
    /\ ~ IsDirectRepositoryMode(maintenanceList[i])
    /\ maintenanceMatchesSource(maintenanceList[i], source) = "true"
    /\ arbitration' = [op |-> "isHighestPriority", source |-> source,
                       policy |-> maintenanceList[i].name,
                       result |-> isHighestPriority(maintenanceList[i], source,
                                     findConflictingMaintenances(maintenanceList,
                                                                 maintenanceList[i]))]
    /\ UNCHANGED <<raceVars, projectionVars, sourceVars, maintenanceList, directVars>>

NextArb ==
    \/ \E policy \in Policies : \E i \in 1..(Len(maintenanceList) + 1) :
          CreateKopiaMaintenance(policy, i)
    \/ \E i \in DOMAIN maintenanceList : DeleteKopiaMaintenance(i)
    \/ \E source \in TargetSources : FindBestMatchingMaintenanceConfig(source)
    \/ \E i \in DOMAIN maintenanceList : \E source \in TargetSources :
          IsHighestPriority(i, source)

SpecArb == InitArb /\ [][NextArb]_vars

(***************************************************************************)
(* The three repository-name matchers, applied to patterns and names.      *)
(***************************************************************************)

\* Patterns with a wildcard alone, at the end, at the start, at both ends,
\* in the middle, a single-character wildcard, and no wildcard.
PatternInputs ==
    {"*", "shared-*", "*-secret", "*repo*", "shared-*-secret", "app-repo-secre?",
     "shared-repo-secret"}

NameInputs == {"shared-repo-secret", "app-repo-secret", "ca-secret", "alpha", "beta"}

BoolString(b) == IF b THEN "true" ELSE "false"

InitPattern ==
    /\ sources = << >>
    /\ cronJobs = << >>
    /\ lastOp = [op |-> "none", key |-> <<"", "">>]
    /\ scenario = "start"
    /\ maintenanceList = << >>
    /\ arbitration \in { [op |-> "none", source |-> str, policy |-> pattern, result |-> ""] :
                            str \in NameInputs, pattern \in PatternInputs }
    /\ maintenances = << >>
    /\ reconcileResult = NoResult
    /\ secrets = << >>
    /\ policyStatus = << >>
    /\ workers = << >>
    /\ workQueue = {}

\* EnhancedMaintenanceManager.matchesPattern is asked.
ManagerMatchesPattern ==
    /\ arbitration' = [arbitration EXCEPT
                          !.op = "EnhancedMaintenanceManager.matchesPattern",
                          !.result = BoolString(matchesPattern(arbitration.source,
                                                               arbitration.policy))]
    /\ UNCHANGED <<raceVars, projectionVars, sourceVars, maintenanceList, directVars>>

\* KopiaMaintenanceReconciler.matchesPattern is asked.
ReconcilerMatchesPattern ==
    /\ arbitration' = [arbitration EXCEPT
                          !.op = "KopiaMaintenanceReconciler.matchesPattern",
                          !.result = BoolString(reconcilerMatchesPattern(arbitration.source,
                                                                         arbitration.policy))]
    /\ UNCHANGED <<raceVars, projectionVars, sourceVars, maintenanceList, directVars>>

\* matchesPattern of the API type is asked.
ApiMatchesPattern ==
    /\ arbitration' = [arbitration EXCEPT
                          !.op = "matchesPattern",
                          !.result = BoolString(apiMatchesPattern(arbitration.source,
                                                                  arbitration.policy))]
    /\ UNCHANGED <<raceVars, projectionVars, sourceVars, maintenanceList, directVars>>

NextPattern ==
    \/ ManagerMatchesPattern
    \/ ReconcilerMatchesPattern
    \/ ApiMatchesPattern

SpecPattern == InitPattern /\ [][NextPattern]_vars

(***************************************************************************)
(* The three policy matchers, applied to namespace selectors with labels.  *)
(***************************************************************************)

\* The matchLabels a namespace selector may carry; a label value may be empty.
MatchLabelsInputs ==
    { ("env" :> "prod"), ("env" :> "dev"), ("env" :> "prod") @@ ("tier" :> "gold"),
      ("env" :> "prod") @@ ("tier" :> "") }

LabelPolicies ==
    { [name |-> "alpha",
       spec |-> [priority |-> 0,
                 repositorySelector |->
                     [present |-> TRUE, repository |-> pat,
                      namespaceSelector |->
                          [present |-> TRUE, matchNames |-> names, excludeNames |-> << >>,
                           matchLabels |-> labels],
                      customCA |-> NoCustomCASelector, labels |-> << >>],
                 repository |-> NoRepository]] :
         pat \in {"", "*", "shared-repo-secret"},
         names \in {<< >>, <<"team-a">>},
         labels \in MatchLabelsInputs }

InitLabels ==
    /\ sources = << >>
    /\ cronJobs = << >>
    /\ lastOp = [op |-> "none", key |-> <<"", "">>]
    /\ scenario = "start"
    /\ maintenanceList \in { <<policy>> : policy \in LabelPolicies }
    /\ arbitration \in { [op |-> "none", source |-> source, policy |-> "alpha", result |-> ""] :
                            source \in TargetSources }
    /\ maintenances = << >>
    /\ reconcileResult = NoResult
    /\ secrets = << >>
    /\ policyStatus = << >>
    /\ workers = << >>
    /\ workQueue = {}

\* EnhancedMaintenanceManager.maintenanceMatches is asked.
ManagerMatches ==
    /\ arbitration' = [arbitration EXCEPT
                          !.op = "EnhancedMaintenanceManager.maintenanceMatches",
                          !.result = BoolString(maintenanceMatches(maintenanceList[1],
                                                                   arbitration.source))]
    /\ UNCHANGED <<raceVars, projectionVars, sourceVars, maintenanceList, directVars>>

\* KopiaMaintenanceReconciler.maintenanceMatchesSource is asked.
ReconcilerMatches ==
    /\ arbitration' = [arbitration EXCEPT
                          !.op = "KopiaMaintenanceReconciler.maintenanceMatchesSource",
                          !.result = maintenanceMatchesSource(maintenanceList[1],
                                                              arbitration.source)]
    /\ UNCHANGED <<raceVars, projectionVars, sourceVars, maintenanceList, directVars>>

\* KopiaMaintenance.Matches is asked.
ApiMatches ==
    /\ arbitration' = [arbitration EXCEPT
                          !.op = "KopiaMaintenance.Matches",
                          !.result = BoolString(Matches(maintenanceList[1],
                                                        arbitration.source))]
    /\ UNCHANGED <<raceVars, projectionVars, sourceVars, maintenanceList, directVars>>

NextLabels ==
    \/ ManagerMatches
    \/ ReconcilerMatches
    \/ ApiMatches

SpecLabels == InitLabels /\ [][NextLabels]_vars

(***************************************************************************)
(* KopiaMaintenance.Validate of the selector-capable type, applied to      *)
(* every combination of the two modes.                                     *)
(***************************************************************************)

\* Policies as a user can write them, valid or not: the selector absent or
\* present, the repository absent, present without a name or present with one.
ValidateSpecs ==
    { [priority |-> prio, repositorySelector |-> sel, repository |-> repo] :
         prio \in Priorities,
         sel \in {NoRepositorySelector} \cup RepositorySelectors,
         repo \in {NoRepository, [present |-> TRUE, repository |-> ""],
                   [present |-> TRUE, repository |-> "shared-repo-secret"]} }

ValidatePolicies == { [name |-> n, spec |-> s] : n \in PolicyNames, s \in ValidateSpecs }

\* A Validate that lets a policy carry both modes.
ValidateAllowingBoth(maintenance) ==
    LET hasSelector == maintenance.spec.repositorySelector.present
        hasRepository == maintenance.spec.repository.present
    IN  IF ~ hasSelector /\ ~ hasRepository
        THEN "either repositorySelector or repository must be specified"
        ELSE IF hasRepository /\ maintenance.spec.repository.repository = ""
        THEN "repository.repository field is required when using direct repository mode"
        ELSE ""

\* KopiaMaintenance.Validate: the error, "" for nil.
Validate(maintenance) ==
    LET hasSelector == maintenance.spec.repositorySelector.present
        hasRepository == maintenance.spec.repository.present
    IN  IF ~ hasSelector /\ ~ hasRepository
        THEN "either repositorySelector or repository must be specified"
        ELSE IF hasSelector /\ hasRepository
        THEN "repositorySelector and repository are mutually exclusive - specify only one"
        ELSE IF hasRepository /\ maintenance.spec.repository.repository = ""
        THEN "repository.repository field is required when using direct repository mode"
        ELSE ""

InitValidate ==
    /\ sources = << >>
    /\ cronJobs = << >>
    /\ lastOp = [op |-> "none", key |-> <<"", "">>]
    /\ scenario = "start"
    /\ maintenanceList \in { <<policy>> : policy \in ValidatePolicies }
    /\ arbitration = NoArbitration
    /\ maintenances = << >>
    /\ reconcileResult = NoResult
    /\ secrets = << >>
    /\ policyStatus = << >>
    /\ workers = << >>
    /\ workQueue = {}

\* Validate is called on the policy.
ApplyValidate(i) ==
    /\ arbitration' = [op |-> "Validate", source |-> "", policy |-> maintenanceList[i].name,
                       result |-> Validate(maintenanceList[i])]
    /\ UNCHANGED <<raceVars, projectionVars, sourceVars, maintenanceList, directVars>>

NextValidate == \E i \in DOMAIN maintenanceList : ApplyValidate(i)

SpecValidate == InitValidate /\ [][NextValidate]_vars

(***************************************************************************)
(* Direct-mode policies: KopiaMaintenanceReconciler reconciles namespaced  *)
(* KopiaMaintenance objects that name their repository secret, and drives  *)
(* the same MaintenanceManager through a synthetic ReplicationSource.      *)
(***************************************************************************)
DirectKeys == {<<"team-a", "daily">>}

\* Schedules the CRD's pattern admits; the last one is no cron expression
\* (its fields are out of range).
DirectSchedules == {"", "0 4 * * *", "99 99 99 99 99"}

\* Whether the standard five-field cron parser accepts the schedule: minute
\* 0-59, hour 0-23, day of month 1-31, month 1-12, day of week 0-6.
ParsesAsCron(schedule) == schedule \in {"0 2 * * *", "0 4 * * *"}

kopiaMaintenanceFinalizer == "volsync.backube/kopiamaintenance-protection"

maxNameLength == 34

cronJobHashHexLen == 16

NoDirectCA == [present |-> FALSE, secretName |-> "", configMapName |-> "", key |-> ""]

\* The specs a user may write.
DirectSpecs ==
    { [repository |-> [repository |-> r, customCA |-> NoDirectCA],
       schedule |-> s, enabled |-> en, suspend |-> "nil",
       successfulJobsHistoryLimit |-> NoLimit, failedJobsHistoryLimit |-> NoLimit,
       resources |-> "nil"] :
         r \in {"", "shared-repo-secret"}, s \in DirectSchedules, en \in {"nil", "false"} }

\* The empty CronJob name.
NoCronJobName == [prefix |-> "", name |-> << >>, hash |-> [sha256 |-> << >>, len |-> 0]]

NoCondition == [status |-> "", reason |-> "", message |-> << >>]

\* A nil Status pointer.
NoStatus ==
    [present |-> FALSE, activeCronJob |-> NoCronJobName, ready |-> NoCondition,
     progressing |-> NoCondition]

\* The API calls of one reconcile that can fail.
ApiFailures == {"none", "delete", "update", "patch"}

\* KopiaMaintenance.GetEnabled
directGetEnabled(maintenance) ==
    IF maintenance.spec.enabled = "nil" THEN TRUE ELSE maintenance.spec.enabled = "true"

\* KopiaMaintenance.GetSchedule
directGetSchedule(maintenance) ==
    IF maintenance.spec.schedule = "" THEN "0 2 * * *" ELSE maintenance.spec.schedule

\* KopiaMaintenance.GetRepositorySecret
GetRepositorySecret(maintenance) == maintenance.spec.repository.repository

\* KopiaMaintenance.Validate of the namespaced type: the error, "" for nil.
directValidate(maintenance) ==
    IF maintenance.spec.repository.repository = ""
    THEN "repository.repository field is required"
    ELSE ""

\* Mutant: the truncated name alone, without the hash of namespace/name.
directCronJobNameWithoutHash(key) ==
    [prefix |-> "kopia-maint-",
     name   |-> IF Len(CharsOf[key[2]]) > maxNameLength
                THEN SubSeq(CharsOf[key[2]], 1, maxNameLength)
                ELSE CharsOf[key[2]],
     hash   |-> [sha256 |-> << >>, len |-> cronJobHashHexLen]]

\* The name ensureCronJob reports and cleanupCronJob deletes:
\* kopia-maint-<name, at most 34 characters>-<8 bytes of sha256(namespace/name)>.
directCronJobName(key) ==
    [prefix |-> "kopia-maint-",
     name   |-> IF Len(CharsOf[key[2]]) > maxNameLength
                THEN SubSeq(CharsOf[key[2]], 1, maxNameLength)
                ELSE CharsOf[key[2]],
     hash   |-> [sha256 |-> <<key[1], "/", key[2]>>, len |-> cronJobHashHexLen]]

\* The synthetic ReplicationSource ensureCronJob hands to the manager.
syntheticSource(key, maintenance) ==
    [key  |-> <<key[1], <<"maintenance-", key[2]>>>>,
     spec |-> [repository |-> GetRepositorySecret(maintenance),
               customCA |-> IF maintenance.spec.repository.customCA.present
                            THEN [secretName |-> maintenance.spec.repository.customCA.secretName,
                                  configMapName |->
                                      maintenance.spec.repository.customCA.configMapName,
                                  key |-> maintenance.spec.repository.customCA.key]
                            ELSE ZeroCA,
               maintenanceCronJob |->
                   [present |-> TRUE,
                    enabled |-> maintenance.spec.enabled,
                    schedule |-> directGetSchedule(maintenance),
                    suspend |-> maintenance.spec.suspend,
                    successfulJobsHistoryLimit |-> maintenance.spec.successfulJobsHistoryLimit,
                    failedJobsHistoryLimit |-> maintenance.spec.failedJobsHistoryLimit,
                    resources |-> maintenance.spec.resources],
               maintenanceIntervalDays |-> NoIntervalDays]]

\* ensureCronJob: the repository secret must exist; the manager then ensures
\* the CronJob of the synthetic source; the name reported is computed apart.
ensureCronJob(cjs, key, maintenance, secretExists) ==
    IF ~ secretExists
    THEN [cronJobs |-> cjs, name |-> NoCronJobName, err |-> "repository secret not found"]
    ELSE LET src == syntheticSource(key, maintenance)
         IN  [cronJobs |-> ReconcileMaintenanceForSource(cjs, src.key, src.spec),
              name |-> directCronJobName(key), err |-> ""]

\* cleanupCronJob: Delete the CronJob of the computed name; not found is no error.
cleanupCronJob(cjs, key, fail) ==
    LET k == <<key[1], directCronJobName(key)>>
    IN  IF fail = "delete" THEN [cronJobs |-> cjs, err |-> "failed to delete CronJob"]
        ELSE [cronJobs |-> [c \in DOMAIN cjs \ {k} |-> cjs[c]], err |-> ""]

\* updateConditions: the Progressing and Ready conditions.
updateConditions(maintenance, activeCronJob, reconcileErr) ==
    [progressing |->
        IF reconcileErr # ""
        THEN [status |-> "True", reason |-> "ReconcileError",
              message |-> <<"Reconciliation in progress, error: ", reconcileErr>>]
        ELSE IF ~ directGetEnabled(maintenance)
        THEN [status |-> "False", reason |-> "MaintenanceDisabled",
              message |-> <<"Maintenance is disabled">>]
        ELSE IF activeCronJob # NoCronJobName
        THEN [status |-> "False", reason |-> "ReconcileComplete",
              message |-> <<"CronJob successfully configured">>]
        ELSE [status |-> "True", reason |-> "CreatingCronJob",
              message |-> <<"Creating maintenance CronJob">>],
     ready |->
        IF reconcileErr # ""
        THEN [status |-> "False", reason |-> "ReconcileFailed",
              message |-> <<"Reconcile failed: ", reconcileErr>>]
        ELSE IF ~ directGetEnabled(maintenance)
        THEN [status |-> "False", reason |-> "MaintenanceDisabled",
              message |-> <<"Maintenance is disabled">>]
        ELSE IF activeCronJob # NoCronJobName
        THEN [status |-> "True", reason |-> "MaintenanceActive",
              message |-> <<"Maintenance CronJob ", activeCronJob, " is active for repository ",
                            GetRepositorySecret(maintenance)>>]
        ELSE [status |-> "False", reason |-> "CronJobCreationFailed",
              message |-> <<"Failed to create maintenance CronJob">>]]

\* updateStatusWithError: the status is patched unless the patch fails.
updateStatusWithError(maintenance, activeCronJob, reconcileErr, fail) ==
    LET conditions == updateConditions(maintenance, activeCronJob, reconcileErr)
    IN  IF fail = "patch"
        THEN [object |-> maintenance, err |-> "failed to patch status"]
        ELSE [object |-> [maintenance EXCEPT
                            !.status = [present |-> TRUE, activeCronJob |-> activeCronJob,
                                        ready |-> conditions.ready,
                                        progressing |-> conditions.progressing]],
              err |-> ""]

\* The object store after client.Update of an object: a deleting object
\* without finalizers is gone.
StoreUpdated(ms, key, object) ==
    IF object.deletionTimestamp /\ object.finalizers = {}
    THEN [k \in DOMAIN ms \ {key} |-> ms[k]]
    ELSE [ms EXCEPT ![key] = object]

\* A deletion branch that drops the finalizer whatever cleanupCronJob returned.
handleDeletionUngated(ms, cjs, key, fail) ==
    LET maintenance == ms[key]
        cleaned == cleanupCronJob(cjs, key, fail)
    IN  [maintenances |->
             StoreUpdated(ms, key,
                 [maintenance EXCEPT
                     !.finalizers = maintenance.finalizers \ {kopiaMaintenanceFinalizer}]),
         cronJobs |-> cleaned.cronJobs,
         result |-> [NoResult EXCEPT !.key = key, !.err = cleaned.err,
                                     !.cleanup = IF cleaned.err # "" THEN "failed" ELSE "ok"]]

\* Reconcile, the branch for an object being deleted: cleanupCronJob gates
\* the removal of the finalizer.
handleDeletion(ms, cjs, key, fail) ==
    LET maintenance == ms[key]
        cleaned == cleanupCronJob(cjs, key, fail)
    IN  IF kopiaMaintenanceFinalizer \notin maintenance.finalizers
        THEN [maintenances |-> ms, cronJobs |-> cjs,
              result |-> [NoResult EXCEPT !.key = key]]
        ELSE IF cleaned.err # ""
        THEN [maintenances |-> ms, cronJobs |-> cleaned.cronJobs,
              result |-> [NoResult EXCEPT !.key = key, !.requeueAfter = "30s",
                                          !.err = cleaned.err, !.cleanup = "failed"]]
        ELSE IF fail = "update"
        THEN [maintenances |-> ms, cronJobs |-> cleaned.cronJobs,
              result |-> [NoResult EXCEPT !.key = key, !.err = "failed to update object",
                                          !.cleanup = "ok"]]
        ELSE [maintenances |->
                  StoreUpdated(ms, key,
                      [maintenance EXCEPT
                          !.finalizers = maintenance.finalizers \ {kopiaMaintenanceFinalizer}]),
              cronJobs |-> cleaned.cronJobs,
              result |-> [NoResult EXCEPT !.key = key, !.cleanup = "ok"]]

\* KopiaMaintenanceReconciler.Reconcile: the object store, the CronJobs and
\* the (ctrl.Result, error) it returns.
directReconcile(ms, cjs, key, fail, secretExists) ==
    IF key \notin DOMAIN ms
    THEN [maintenances |-> ms, cronJobs |-> cjs, result |-> [NoResult EXCEPT !.key = key]]
    ELSE
    LET maintenance == ms[key]
        validateErr == directValidate(maintenance)
    IN  IF validateErr # ""
        THEN [maintenances |->
                  [ms EXCEPT ![key] =
                      updateStatusWithError(maintenance, NoCronJobName, validateErr, fail).object],
              cronJobs |-> cjs,
              result |-> [NoResult EXCEPT !.key = key, !.err = validateErr]]
        ELSE IF maintenance.deletionTimestamp
        THEN handleDeletion(ms, cjs, key, fail)
        ELSE IF kopiaMaintenanceFinalizer \notin maintenance.finalizers
        THEN IF fail = "update"
             THEN [maintenances |-> ms, cronJobs |-> cjs,
                   result |-> [NoResult EXCEPT !.key = key, !.err = "failed to update object"]]
             ELSE [maintenances |->
                       [ms EXCEPT ![key].finalizers = @ \cup {kopiaMaintenanceFinalizer}],
                   cronJobs |-> cjs,
                   result |-> [NoResult EXCEPT !.key = key, !.requeue = TRUE]]
        ELSE IF ~ directGetEnabled(maintenance)
        THEN LET cleaned == cleanupCronJob(cjs, key, fail)
                 patched == updateStatusWithError(maintenance, NoCronJobName, "", fail)
             IN  IF cleaned.err # ""
                 THEN [maintenances |-> ms, cronJobs |-> cleaned.cronJobs,
                       result |-> [NoResult EXCEPT !.key = key, !.requeueAfter = "1m",
                                                   !.err = cleaned.err, !.cleanup = "failed"]]
                 ELSE [maintenances |-> [ms EXCEPT ![key] = patched.object],
                       cronJobs |-> cleaned.cronJobs,
                       result |-> [NoResult EXCEPT !.key = key, !.err = patched.err,
                                                   !.cleanup = "ok"]]
        ELSE LET ensured == ensureCronJob(cjs, key, maintenance, secretExists)
             IN  IF ensured.err # ""
                 THEN [maintenances |->
                           [ms EXCEPT ![key] =
                               updateStatusWithError(maintenance, NoCronJobName, ensured.err, fail).object],
                       cronJobs |-> ensured.cronJobs,
                       result |-> [NoResult EXCEPT !.key = key, !.requeueAfter = "1m",
                                                   !.err = ensured.err]]
                 ELSE LET patched == updateStatusWithError(maintenance, ensured.name, "", fail)
                      IN  [maintenances |-> [ms EXCEPT ![key] = patched.object],
                           cronJobs |-> ensured.cronJobs,
                           result |-> [NoResult EXCEPT !.key = key, !.requeueAfter = "5m",
                                                       !.err = patched.err]]

\* A fresh KopiaMaintenance as the API server stores it.
NewMaintenance(spec) ==
    [spec |-> spec, deletionTimestamp |-> FALSE, finalizers |-> {}, status |-> NoStatus]

InitDirect ==
    /\ sources = << >>
    /\ cronJobs = << >>
    /\ lastOp = [op |-> "Init", key |-> <<"", "">>]
    /\ scenario = "start"
    /\ maintenanceList = << >>
    /\ arbitration = NoArbitration
    /\ maintenances = << >>
    /\ reconcileResult = NoResult
    /\ secrets = << >>
    /\ policyStatus = << >>
    /\ workers = << >>
    /\ workQueue = {}

\* A user creates a KopiaMaintenance.
CreateMaintenance(key, spec) ==
    /\ key \notin DOMAIN maintenances
    /\ maintenances' = (key :> NewMaintenance(spec)) @@ maintenances
    /\ reconcileResult' = NoResult
    /\ lastOp' = [op |-> "CreateMaintenance", key |-> key]
    /\ UNCHANGED <<raceVars, projectionVars, sources, cronJobs, scenario, maintenanceList, arbitration>>

\* A user changes the spec of a KopiaMaintenance.
UpdateMaintenance(key, spec) ==
    /\ key \in DOMAIN maintenances
    /\ maintenances[key].spec # spec
    /\ maintenances' = [maintenances EXCEPT ![key].spec = spec]
    /\ reconcileResult' = NoResult
    /\ lastOp' = [op |-> "UpdateMaintenance", key |-> key]
    /\ UNCHANGED <<raceVars, projectionVars, sources, cronJobs, scenario, maintenanceList, arbitration>>

\* A user deletes a KopiaMaintenance: with a finalizer the API server only
\* sets the deletion timestamp.
DeleteMaintenance(key) ==
    /\ key \in DOMAIN maintenances
    /\ ~ maintenances[key].deletionTimestamp
    /\ maintenances' = StoreUpdated(maintenances, key,
                           [maintenances[key] EXCEPT !.deletionTimestamp = TRUE])
    /\ reconcileResult' = NoResult
    /\ lastOp' = [op |-> "DeleteMaintenance", key |-> key]
    /\ UNCHANGED <<raceVars, projectionVars, sources, cronJobs, scenario, maintenanceList, arbitration>>

\* One run of Reconcile for the request key; fail names the API call that
\* fails in this run, secretExists whether the repository secret is found.
ReconcileMaintenance(key, fail, secretExists) ==
    LET out == directReconcile(maintenances, cronJobs, key, fail, secretExists)
    IN  /\ maintenances' = out.maintenances
        /\ cronJobs' = out.cronJobs
        /\ reconcileResult' = out.result
        /\ lastOp' = [op |-> "ReconcileMaintenance", key |-> key]
        /\ UNCHANGED <<raceVars, projectionVars, sources, scenario, maintenanceList, arbitration>>

NextDirect ==
    \/ \E key \in DirectKeys, spec \in DirectSpecs : CreateMaintenance(key, spec)
    \/ \E key \in DirectKeys, spec \in DirectSpecs : UpdateMaintenance(key, spec)
    \/ \E key \in DirectKeys : DeleteMaintenance(key)
    \/ \E key \in DirectKeys, fail \in ApiFailures, secretExists \in BOOLEAN :
           ReconcileMaintenance(key, fail, secretExists)

SpecDirect == InitDirect /\ [][NextDirect]_vars

\* The work queue runs Reconcile for an object again and again (a returned
\* error requeues it), and a run in which every API call succeeds and the
\* repository secret is found is taken whenever it stays possible.
ReconcileSucceeding == \E key \in DirectKeys : ReconcileMaintenance(key, "none", TRUE)

SpecDirectFair == SpecDirect /\ WF_vars(ReconcileSucceeding)

(***************************************************************************)
(* EnhancedMaintenanceManager: a ReplicationSource is served by the best   *)
(* matching KopiaMaintenance, else by its embedded maintenance fields.     *)
(***************************************************************************)

\* The embedded (legacy) maintenance fields a user may write for the source.
LegacySourceSpecs ==
    { [repository |-> "shared-repo-secret", customCA |-> ZeroCA,
       maintenanceCronJob |-> NoMaintenanceCronJob,
       maintenanceIntervalDays |-> NoIntervalDays] }
    \cup
    { [repository |-> "shared-repo-secret", customCA |-> ZeroCA,
       maintenanceCronJob |-> [NoMaintenanceCronJob EXCEPT
                                 !.present = TRUE, !.schedule = s, !.suspend = su],
       maintenanceIntervalDays |-> NoIntervalDays] :
         s \in Schedules, su \in {"nil", "true"} }

\* Selector-mode policies that carry maintenance settings.
SettingsPolicies ==
    { [name |-> n,
       spec |-> [priority |-> prio,
                 repositorySelector |->
                     [present |-> TRUE, repository |-> "*",
                      namespaceSelector |-> NoNamespaceSelector,
                      customCA |-> NoCustomCASelector, labels |-> << >>],
                 repository |-> NoRepository,
                 enabled |-> en, schedule |-> s, suspend |-> su,
                 successfulJobsHistoryLimit |-> NoLimit,
                 failedJobsHistoryLimit |-> NoLimit, resources |-> "nil"]] :
         n \in {"alpha", "beta"}, prio \in Priorities, en \in {"nil", "false"},
         s \in {"", "0 4 * * *"}, su \in {"nil", "true"} }

\* KopiaMaintenance.GetEnabled
GetEnabled(maintenance) ==
    IF maintenance.spec.enabled = "nil" THEN TRUE ELSE maintenance.spec.enabled = "true"

\* KopiaMaintenance.GetSchedule
GetSchedule(maintenance) ==
    IF maintenance.spec.schedule = "" THEN "0 2 * * *" ELSE maintenance.spec.schedule

\* The ReplicationSource as the matchers read it.
SourceView(key, spec) ==
    [namespace |-> key[1], kopia |-> TRUE, repository |-> spec.repository,
     customCA |-> spec.customCA, labels |-> << >>]

\* The listed policy of that name.
PolicyNamed(items, name) ==
    items[CHOOSE i \in DOMAIN items : items[i].name = name]

\* hasLegacyMaintenanceConfig
hasLegacyMaintenanceConfig(spec) ==
    spec.maintenanceCronJob.present \/ spec.maintenanceIntervalDays.present

\* The synthetic source of createMaintenanceFromCRD: a copy of the source
\* whose maintenanceCronJob fields are overwritten with the policy's.
syntheticSpecFromCRD(spec, maintenance) ==
    [spec EXCEPT !.maintenanceCronJob =
        [present |-> TRUE,
         enabled |-> maintenance.spec.enabled,
         schedule |-> GetSchedule(maintenance),
         suspend |-> maintenance.spec.suspend,
         successfulJobsHistoryLimit |-> maintenance.spec.successfulJobsHistoryLimit,
         failedJobsHistoryLimit |-> maintenance.spec.failedJobsHistoryLimit,
         resources |-> maintenance.spec.resources]]

\* createMaintenanceFromCRD: the legacy manager reconciles the synthetic source.
createMaintenanceFromCRD(cjs, key, spec, maintenance) ==
    ReconcileMaintenanceForSource(cjs, key, syntheticSpecFromCRD(spec, maintenance))

\* EnhancedMaintenanceManager.ReconcileMaintenanceForSource: the CronJobs it
\* leaves, the policy it used ("nil" for none) and the path it took.
enhancedReconcileMaintenanceForSource(cjs, items, key, spec) ==
    LET best == findBestMatchingMaintenanceConfig(items, SourceView(key, spec))
    IN  IF best # "nil"
        THEN IF GetEnabled(PolicyNamed(items, best))
             THEN [cronJobs |-> createMaintenanceFromCRD(cjs, key, spec,
                                                         PolicyNamed(items, best)),
                   policy |-> best, result |-> "crd"]
             ELSE [cronJobs |-> cjs, policy |-> best, result |-> "crd-disabled"]
        ELSE IF hasLegacyMaintenanceConfig(spec)
        THEN [cronJobs |-> ReconcileMaintenanceForSource(cjs, key, spec),
              policy |-> "nil", result |-> "legacy"]
        ELSE [cronJobs |-> cjs, policy |-> "nil", result |-> "none"]

\* One run of EnhancedMaintenanceManager.ReconcileMaintenanceForSource for an
\* existing source; with a policy it ends by writing the policy's name to the
\* source's status.
EnhancedReconcile(k) ==
    /\ k \in DOMAIN sources
    /\ LET out == enhancedReconcileMaintenanceForSource(cronJobs, maintenanceList, k,
                                                        sources[k])
       IN  /\ cronJobs' = out.cronJobs
           /\ arbitration' = [op |-> "ReconcileMaintenanceForSource", source |-> k,
                              policy |-> out.policy, result |-> out.result]
    /\ lastOp' = [op |-> "EnhancedReconcile", key |-> k]
    /\ UNCHANGED <<raceVars, projectionVars, sources, scenario, maintenanceList, directVars>>

NextEnhanced ==
    \/ \E spec \in LegacySourceSpecs : CreateSource(SourceA, spec)
    \/ \E spec \in LegacySourceSpecs : UpdateSource(SourceA, spec)
    \/ DeleteSource(SourceA)
    \/ \E policy \in SettingsPolicies : \E i \in 1..(Len(maintenanceList) + 1) :
          CreateKopiaMaintenance(policy, i)
    \/ \E i \in DOMAIN maintenanceList : DeleteKopiaMaintenance(i)
    \/ EnhancedReconcile(SourceA)

SpecEnhanced == Init /\ [][NextEnhanced]_vars

(***************************************************************************)
(* The legacy manager for one ReplicationSource that may carry both        *)
(* maintenanceCronJob and maintenanceIntervalDays.                         *)
(***************************************************************************)

\* The interval values followed: disabled, daily, weekly, monthly.
IntervalDaysInputs ==
    {NoIntervalDays} \cup { [present |-> TRUE, days |-> d] : d \in {0, 1, 7, 30} }

IntervalSpecs ==
    { [repository |-> "shared-repo-secret", customCA |-> ZeroCA,
       maintenanceCronJob |-> cj, maintenanceIntervalDays |-> days] :
         cj \in {NoMaintenanceCronJob}
                \cup { [NoMaintenanceCronJob EXCEPT
                          !.present = TRUE, !.enabled = en, !.schedule = s] :
                         en \in {"nil", "false"}, s \in {"", "0 4 * * *"} },
         days \in IntervalDaysInputs }

NextInterval ==
    \/ \E spec \in IntervalSpecs : CreateSource(SourceA, spec)
    \/ \E spec \in IntervalSpecs : UpdateSource(SourceA, spec)
    \/ DeleteSource(SourceA)
    \/ Reconcile(SourceA)
    \/ CleanupOrphaned("team-a")

SpecInterval == Init /\ [][NextInterval]_vars

(***************************************************************************)
(* The selector-capable KopiaMaintenanceReconciler: cluster-scoped         *)
(* policies; in direct repository mode the repository secret is copied to  *)
(* the operator namespace and the CronJob runs there; in selector mode the *)
(* policy serves the ReplicationSources it matches and wins by priority.   *)
(***************************************************************************)
getOperatorNamespace == "volsync-system"

\* The repository secret users keep, and what they may put in it.
RepositorySecretKey == <<"team-a", "shared-repo-secret">>

SecretData == {"password-1", "password-2"}

SecretTypes == {"Opaque", "kubernetes.io/basic-auth"}

\* API calls of one reconciliation that may fail.
ProjectionFailures == {"none", "create", "update", "delete", "status"}

\* The policies a user may write in direct repository mode, the secret in a
\* user namespace or in the operator namespace.
DirectRepositoryPolicies ==
    { [name |-> "alpha",
       spec |-> [priority |-> 0, repositorySelector |-> NoRepositorySelector,
                 repository |-> [present |-> TRUE, repository |-> "shared-repo-secret",
                                 namespace |-> ns, customCA |-> NoDirectCA],
                 enabled |-> en, schedule |-> "", suspend |-> "nil",
                 successfulJobsHistoryLimit |-> NoLimit,
                 failedJobsHistoryLimit |-> NoLimit, resources |-> "nil"]] :
         ns \in {"team-a", ""}, en \in {"nil", "false"} }

\* The policies a user may write in selector mode.
SelectorPolicies ==
    { [name |-> n,
       spec |-> [priority |-> prio,
                 repositorySelector |->
                     [present |-> TRUE, repository |-> pat,
                      namespaceSelector |-> NoNamespaceSelector,
                      customCA |-> NoCustomCASelector, labels |-> << >>],
                 repository |-> NoRepository,
                 enabled |-> en, schedule |-> "", suspend |-> "nil",
                 successfulJobsHistoryLimit |-> NoLimit,
                 failedJobsHistoryLimit |-> NoLimit, resources |-> "nil"]] :
         n \in {"alpha", "beta"}, prio \in Priorities, pat \in {"*", "app-repo-secret"},
         en \in {"nil"} }

\* The ReplicationSources of the selector mode.
ProjectionSourceKeys == {<<"team-a", "source-c">>}

ProjectionSourceSpecs ==
    { [repository |-> r, customCA |-> ZeroCA, maintenanceCronJob |-> NoMaintenanceCronJob,
       maintenanceIntervalDays |-> NoIntervalDays] : r \in Repositories }

\* The status of a policy that was never reconciled.
NoPolicyStatus ==
    [matchedSources |-> << >>, activeCronJobs |-> << >>, conflictingMaintenances |-> << >>,
     ready |-> [status |-> "", reason |-> ""]]

\* fmt.Sprintf("kopia-maintenance-%s-%s", maintenanceName, secretName)
targetSecretNameOf ==
    (<<"alpha", "shared-repo-secret">> :> "kopia-maintenance-alpha-shared-repo-secret") @@
    (<<"beta", "shared-repo-secret">> :> "kopia-maintenance-beta-shared-repo-secret")

\* Mutant: a copy that exists is left as it is.
copySecretOnce(secs, secretName, sourceNamespace, maintenanceName, fail) ==
    LET sourceKey == <<sourceNamespace, secretName>>
        targetSecretName == targetSecretNameOf[<<maintenanceName, secretName>>]
        targetKey == <<getOperatorNamespace, targetSecretName>>
    IN  IF sourceKey \notin DOMAIN secs
        THEN [secrets |-> secs, name |-> "", err |-> "failed to get source secret"]
        ELSE IF targetKey \in DOMAIN secs
        THEN [secrets |-> secs, name |-> targetSecretName, err |-> ""]
        ELSE IF fail = "create"
        THEN [secrets |-> secs, name |-> "", err |-> "failed to create secret"]
        ELSE [secrets |->
                  secs @@ (targetKey :>
                      [labels |-> (maintenanceLabelKey :> "true")
                                  @@ ("volsync.backube/managed-by" :> maintenanceName),
                       data |-> secs[sourceKey].data,
                       type |-> secs[sourceKey].type]),
              name |-> targetSecretName, err |-> ""]

\* copySecretToOperatorNamespace: the source secret is read; the copy is
\* created with the policy's labels when it is missing and is otherwise
\* updated in data and type.  The API server refuses an update that changes
\* the type of a Secret.
copySecretToOperatorNamespace(secs, secretName, sourceNamespace, maintenanceName, fail) ==
    LET sourceKey == <<sourceNamespace, secretName>>
        targetSecretName == targetSecretNameOf[<<maintenanceName, secretName>>]
        targetKey == <<getOperatorNamespace, targetSecretName>>
    IN  IF sourceKey \notin DOMAIN secs
        THEN [secrets |-> secs, name |-> "", err |-> "failed to get source secret"]
        ELSE IF targetKey \notin DOMAIN secs
        THEN IF fail = "create"
             THEN [secrets |-> secs, name |-> "", err |-> "failed to create secret"]
             ELSE [secrets |->
                       secs @@ (targetKey :>
                           [labels |-> (maintenanceLabelKey :> "true")
                                       @@ ("volsync.backube/managed-by" :> maintenanceName)
                                       @@ ("volsync.backube/source-secret" :> secretName)
                                       @@ ("volsync.backube/source-namespace" :> sourceNamespace),
                            data |-> secs[sourceKey].data,
                            type |-> secs[sourceKey].type]),
                   name |-> targetSecretName, err |-> ""]
        ELSE IF fail = "update" \/ secs[targetKey].type # secs[sourceKey].type
        THEN [secrets |-> secs, name |-> "", err |-> "failed to update secret"]
        ELSE [secrets |-> [secs EXCEPT ![targetKey].data = secs[sourceKey].data,
                                       ![targetKey].type = secs[sourceKey].type],
              name |-> targetSecretName, err |-> ""]

\* cleanupCopiedSecrets: the secrets of the operator namespace labelled for
\* the policy are deleted; a failed Delete is logged and skipped.
cleanupCopiedSecrets(secs, maintenanceName, fail) ==
    LET listed == { k \in DOMAIN secs :
                      /\ k[1] = getOperatorNamespace
                      /\ MapGet(secs[k].labels, maintenanceLabelKey) = "true"
                      /\ MapGet(secs[k].labels, "volsync.backube/managed-by") = maintenanceName }
    IN  IF fail = "delete" THEN secs
        ELSE [k \in DOMAIN secs \ listed |-> secs[k]]

\* cleanupCronJobs: the CronJobs labelled for the policy are deleted, then,
\* in direct repository mode, the copied secrets.
cleanupCronJobs(cjs, secs, maintenance, fail) ==
    LET listed == { k \in DOMAIN cjs :
                      /\ MapGet(cjs[k].labels, maintenanceLabelKey) = "true"
                      /\ MapGet(cjs[k].labels, "volsync.backube/managed-by") = maintenance.name }
    IN  IF listed # {} /\ fail = "delete"
        THEN [cronJobs |-> cjs, secrets |-> secs, err |-> "failed to delete CronJob"]
        ELSE [cronJobs |-> [k \in DOMAIN cjs \ listed |-> cjs[k]],
              secrets |-> IF IsDirectRepositoryMode(maintenance)
                           THEN cleanupCopiedSecrets(secs, maintenance.name, fail)
                           ELSE secs,
              err |-> ""]

\* The maintenanceCronJob the reconciler writes into its synthetic sources.
projectedMaintenanceCronJob(maintenance, schedule) ==
    [present |-> TRUE, enabled |-> maintenance.spec.enabled, schedule |-> schedule,
     suspend |-> maintenance.spec.suspend,
     successfulJobsHistoryLimit |-> maintenance.spec.successfulJobsHistoryLimit,
     failedJobsHistoryLimit |-> maintenance.spec.failedJobsHistoryLimit,
     resources |-> maintenance.spec.resources]

\* The name ensureCronJobForDirectRepository reports: "kopia-maintenance-"
\* and the name of the policy.
directRepositoryCronJobName(name) == <<"kopia-maintenance-", name>>

\* The synthetic ReplicationSource "synthetic-<name>" of the operator namespace.
directSyntheticSpec(maintenance, targetSecretName) ==
    [repository |-> targetSecretName,
     customCA |-> IF maintenance.spec.repository.customCA.present
                  THEN [secretName |-> maintenance.spec.repository.customCA.secretName,
                        configMapName |-> maintenance.spec.repository.customCA.configMapName,
                        key |-> maintenance.spec.repository.customCA.key]
                  ELSE ZeroCA,
     maintenanceCronJob |-> projectedMaintenanceCronJob(maintenance, GetSchedule(maintenance)),
     maintenanceIntervalDays |-> NoIntervalDays]

\* ensureCronJobForDirectRepository once the secret is in the operator
\* namespace: the manager ensures the CronJob of the synthetic source.
ensureCronJobWithCopy(cjs, maintenance, copy) ==
    IF copy.err # ""
    THEN [cronJobs |-> cjs, secrets |-> copy.secrets, name |-> << >>, err |-> copy.err]
    ELSE [cronJobs |-> ReconcileMaintenanceForSource(
                           cjs, <<getOperatorNamespace, <<"synthetic-", maintenance.name>>>>,
                           directSyntheticSpec(maintenance, copy.name)),
          secrets |-> copy.secrets,
          name |-> directRepositoryCronJobName(maintenance.name), err |-> ""]

\* ensureCronJobForDirectRepository: the secret is copied unless it already
\* is in the operator namespace, which is where an empty namespace points.
ensureCronJobForDirectRepository(cjs, secs, maintenance, fail) ==
    IF maintenance.spec.repository.namespace \in {"", getOperatorNamespace}
    THEN ensureCronJobWithCopy(cjs, maintenance,
             [secrets |-> secs, name |-> maintenance.spec.repository.repository, err |-> ""])
    ELSE ensureCronJobWithCopy(cjs, maintenance,
             copySecretToOperatorNamespace(secs, maintenance.spec.repository.repository,
                                           maintenance.spec.repository.namespace,
                                           maintenance.name, fail))

\* The body of the loop of findMatchingSources: m and h are the answers of
\* maintenanceMatchesSource and isHighestPriority for the source of that key.
matchedSourcesWith(key, m, h, rest) ==
    IF m = "panic" \/ (m = "true" /\ h = "panic") \/ rest.panic
    THEN [panic |-> TRUE, matched |-> << >>]
    ELSE IF m = "true" /\ h = "true"
    THEN [panic |-> FALSE, matched |-> <<key>> \o rest.matched]
    ELSE rest

RECURSIVE findMatchingSources(_, _, _, _)
findMatchingSources(items, maintenance, srcs, rsList) ==
    IF rsList = << >> THEN [panic |-> FALSE, matched |-> << >>]
    ELSE matchedSourcesWith(
             Head(rsList),
             maintenanceMatchesSource(maintenance, SourceView(Head(rsList), srcs[Head(rsList)])),
             isHighestPriority(maintenance, SourceView(Head(rsList), srcs[Head(rsList)]),
                               findConflictingMaintenances(items, maintenance)),
             findMatchingSources(items, maintenance, srcs, Tail(rsList)))

\* RepositoryKey.String
repositoryKeyString(spec) ==
    CharsOf[spec.repository]
    \o (IF spec.customCA.secretName # ""
        THEN <<"-", "c", "a", "-", "s", "e", "c", "r", "e", "t", "-">>
             \o CharsOf[spec.customCA.secretName]
        ELSE << >>)
    \o (IF spec.customCA.configMapName # ""
        THEN <<"-", "c", "a", "-", "c", "m", "-">> \o CharsOf[spec.customCA.configMapName]
        ELSE << >>)

\* ensureCronJobForRepository: the manager ensures the CronJob of the first
\* source of the group, with the policy's maintenanceCronJob; the name
\* reported slices the first 16 bytes of the repository key, which panics
\* when the key is shorter.
ensureCronJobForRepository(cjs, maintenance, srcs, group) ==
    [cronJobs |-> ReconcileMaintenanceForSource(
                      cjs, Head(group),
                      [repository |-> srcs[Head(group)].repository,
                       customCA |-> srcs[Head(group)].customCA,
                       maintenanceCronJob |->
                           projectedMaintenanceCronJob(maintenance, maintenance.spec.schedule),
                       maintenanceIntervalDays |-> NoIntervalDays]),
     name |-> IF Len(repositoryKeyString(srcs[Head(group)])) < 16 THEN << >>
              ELSE <<"kopia-maintenance-",
                     SubSeq(repositoryKeyString(srcs[Head(group)]), 1, 16)>>,
     panic |-> Len(repositoryKeyString(srcs[Head(group)])) < 16]

\* groupSourcesByRepository: the matched sources of one RepositoryKey, in
\* the order they were matched.  The key holds the address of the source's
\* CustomCA field, so every source is a group of its own.
groupSourcesByRepository(matched) == [i \in DOMAIN matched |-> <<matched[i]>>]

\* The loop of Reconcile over the repository groups.
groupsEnsuredWith(one, rest) ==
    IF one.panic THEN [cronJobs |-> one.cronJobs, names |-> << >>, panic |-> TRUE]
    ELSE [cronJobs |-> rest.cronJobs, names |-> <<one.name>> \o rest.names,
          panic |-> rest.panic]

RECURSIVE ensureCronJobsForGroups(_, _, _, _)
ensureCronJobsForGroups(cjs, maintenance, srcs, groups) ==
    IF groups = << >> THEN [cronJobs |-> cjs, names |-> << >>, panic |-> FALSE]
    ELSE groupsEnsuredWith(
             ensureCronJobForRepository(cjs, maintenance, srcs, Head(groups)),
             ensureCronJobsForGroups(
                 ensureCronJobForRepository(cjs, maintenance, srcs, Head(groups)).cronJobs,
                 maintenance, srcs, Tail(groups)))

\* KopiaMaintenanceReconciler.updateConditions: the Ready condition.
projectionReadyCondition(maintenance, matchedSources, activeCronJobs) ==
    IF ~ GetEnabled(maintenance)
    THEN [status |-> "False", reason |-> "MaintenanceDisabled"]
    ELSE IF IsDirectRepositoryMode(maintenance)
    THEN IF Len(activeCronJobs) > 0
         THEN [status |-> "True", reason |-> "MaintenanceActive"]
         ELSE [status |-> "False", reason |-> "CronJobCreationFailed"]
    ELSE IF Len(matchedSources) > 0 /\ Len(activeCronJobs) > 0
    THEN [status |-> "True", reason |-> "MaintenanceActive"]
    ELSE IF Len(matchedSources) = 0
    THEN [status |-> "False", reason |-> "NoMatchingSources"]
    ELSE [status |-> "False", reason |-> "CronJobCreationFailed"]

\* KopiaMaintenanceReconciler.updateStatus: matched sources, active CronJobs
\* and conditions are rewritten; nothing else of the status is.
updateStatus(status, maintenance, matchedSources, activeCronJobs) ==
    [status EXCEPT !.matchedSources = matchedSources,
                   !.activeCronJobs = activeCronJobs,
                   !.ready = projectionReadyCondition(maintenance, matchedSources,
                                                      activeCronJobs)]

\* The status of a listed policy.
StatusOf(statuses, name) ==
    IF name \in DOMAIN statuses THEN statuses[name] ELSE NoPolicyStatus

\* The end of Reconcile: Status().Update of the policy.
statusUpdated(cjs, secs, statuses, maintenance, matched, active, fail, requeueAfter) ==
    IF fail = "status"
    THEN [cronJobs |-> cjs, secrets |-> secs, policyStatus |-> statuses,
          requeueAfter |-> requeueAfter, err |-> "failed to update status"]
    ELSE [cronJobs |-> cjs, secrets |-> secs,
          policyStatus |->
              (maintenance.name :> updateStatus(StatusOf(statuses, maintenance.name),
                                                maintenance, matched, active))
              @@ statuses,
          requeueAfter |-> requeueAfter, err |-> ""]

\* The disabled branch and the no-match branch of Reconcile, after cleanupCronJobs.
reconcileCleaned(cjs, secs, statuses, maintenance, fail, cleaned) ==
    IF cleaned.err # ""
    THEN [cronJobs |-> cjs, secrets |-> secs, policyStatus |-> statuses,
          requeueAfter |-> "1m", err |-> cleaned.err]
    ELSE statusUpdated(cleaned.cronJobs, cleaned.secrets, statuses, maintenance,
                       << >>, << >>, fail, "")

\* The direct repository branch of Reconcile, after ensureCronJobForDirectRepository.
reconcileDirect(statuses, maintenance, fail, ensured) ==
    IF ensured.err # ""
    THEN [cronJobs |-> ensured.cronJobs, secrets |-> ensured.secrets,
          policyStatus |-> statuses, requeueAfter |-> "1m", err |-> ensured.err]
    ELSE statusUpdated(ensured.cronJobs, ensured.secrets, statuses, maintenance,
                       << >>, <<ensured.name>>, fail, "5m")

\* The selector branch of Reconcile once the CronJobs of the groups were ensured.
reconcileGroups(secs, statuses, maintenance, fail, matched, ensured) ==
    IF ensured.panic
    THEN [cronJobs |-> ensured.cronJobs, secrets |-> secs,
          policyStatus |-> statuses, requeueAfter |-> "", err |-> "panic"]
    ELSE statusUpdated(ensured.cronJobs, secs, statuses, maintenance,
                       matched, ensured.names, fail, "5m")

\* The selector branch of Reconcile, after findMatchingSources.
reconcileSelector(cjs, secs, srcs, statuses, maintenance, fail, found) ==
    IF found.panic
    THEN [cronJobs |-> cjs, secrets |-> secs, policyStatus |-> statuses,
          requeueAfter |-> "", err |-> "panic"]
    ELSE IF found.matched = << >>
    THEN reconcileCleaned(cjs, secs, statuses, maintenance, fail,
                          cleanupCronJobs(cjs, secs, maintenance, fail))
    ELSE reconcileGroups(secs, statuses, maintenance, fail, found.matched,
                         ensureCronJobsForGroups(cjs, maintenance, srcs,
                                                 groupSourcesByRepository(found.matched)))

\* KopiaMaintenanceReconciler.Reconcile of the selector-capable reconciler,
\* for a policy that exists.
projectionReconcile(items, cjs, secs, srcs, statuses, maintenance, fail, rsList) ==
    IF Validate(maintenance) # ""
    THEN statusUpdated(cjs, secs, statuses, maintenance, << >>, << >>, fail, "")
    ELSE IF ~ GetEnabled(maintenance)
    THEN reconcileCleaned(cjs, secs, statuses, maintenance, fail,
                          cleanupCronJobs(cjs, secs, maintenance, fail))
    ELSE IF IsDirectRepositoryMode(maintenance)
    THEN reconcileDirect(statuses, maintenance, fail,
                         ensureCronJobForDirectRepository(cjs, secs, maintenance, fail))
    ELSE reconcileSelector(cjs, secs, srcs, statuses, maintenance, fail,
                           findMatchingSources(items, maintenance, srcs, rsList))

\* A user creates the repository secret.
CreateSecret(data, type) ==
    /\ RepositorySecretKey \notin DOMAIN secrets
    /\ secrets' = secrets @@ (RepositorySecretKey :> [labels |-> << >>, data |-> data,
                                                      type |-> type])
    /\ lastOp' = [op |-> "CreateSecret", key |-> RepositorySecretKey]
    /\ UNCHANGED <<raceVars, sources, cronJobs, scenario, policyVars, policyStatus>>

\* A user changes the content of the repository secret.
UpdateSecret(data) ==
    /\ RepositorySecretKey \in DOMAIN secrets
    /\ secrets[RepositorySecretKey].data # data
    /\ secrets' = [secrets EXCEPT ![RepositorySecretKey].data = data]
    /\ lastOp' = [op |-> "UpdateSecret", key |-> RepositorySecretKey]
    /\ UNCHANGED <<raceVars, sources, cronJobs, scenario, policyVars, policyStatus>>

\* A user deletes the repository secret.
DeleteSecret ==
    /\ RepositorySecretKey \in DOMAIN secrets
    /\ secrets' = [k \in DOMAIN secrets \ {RepositorySecretKey} |-> secrets[k]]
    /\ lastOp' = [op |-> "DeleteSecret", key |-> RepositorySecretKey]
    /\ UNCHANGED <<raceVars, sources, cronJobs, scenario, policyVars, policyStatus>>

\* A user applies a policy: it is created, or the spec of the policy of
\* that name is replaced.
ApplyPolicy(policy) ==
    /\ maintenanceList' =
         IF \E i \in DOMAIN maintenanceList : maintenanceList[i].name = policy.name
         THEN [i \in DOMAIN maintenanceList |->
                 IF maintenanceList[i].name = policy.name THEN policy ELSE maintenanceList[i]]
         ELSE Append(maintenanceList, policy)
    /\ maintenanceList' # maintenanceList
    /\ lastOp' = [op |-> "ApplyPolicy", key |-> <<"", policy.name>>]
    /\ UNCHANGED <<raceVars, sources, cronJobs, scenario, arbitration, directVars, projectionVars>>

\* A user deletes a policy; the reconciler holds no finalizer on it.
RemovePolicy(name) ==
    /\ \E i \in DOMAIN maintenanceList : maintenanceList[i].name = name
    /\ maintenanceList' = SelectSeq(maintenanceList, LAMBDA m : m.name # name)
    /\ policyStatus' = [n \in DOMAIN policyStatus \ {name} |-> policyStatus[n]]
    /\ lastOp' = [op |-> "RemovePolicy", key |-> <<"", name>>]
    /\ UNCHANGED <<raceVars, sources, cronJobs, scenario, arbitration, directVars, secrets>>

\* KopiaMaintenanceReconciler.Reconcile(req) of the selector-capable
\* reconciler; a policy that is not found ends the request.
PolicyReconcile(name, fail, rsList) ==
    IF ~ \E i \in DOMAIN maintenanceList : maintenanceList[i].name = name
    THEN /\ fail = "none"
         /\ reconcileResult' = [key |-> <<"", name>>, requeue |-> FALSE, requeueAfter |-> "",
                                err |-> "", cleanup |-> ""]
         /\ lastOp' = [op |-> "PolicyReconcile", key |-> <<"", name>>]
         /\ UNCHANGED <<raceVars, sources, cronJobs, scenario, maintenanceList, arbitration,
                        maintenances, projectionVars>>
    ELSE LET out == projectionReconcile(maintenanceList, cronJobs, secrets, sources,
                                        policyStatus, PolicyNamed(maintenanceList, name),
                                        fail, rsList)
         IN  /\ cronJobs' = out.cronJobs
             /\ secrets' = out.secrets
             /\ policyStatus' = out.policyStatus
             /\ reconcileResult' = [key |-> <<"", name>>, requeue |-> FALSE,
                                    requeueAfter |-> out.requeueAfter, err |-> out.err,
                                    cleanup |-> ""]
             /\ lastOp' = [op |-> "PolicyReconcile", key |-> <<"", name>>]
             /\ UNCHANGED <<raceVars, sources, scenario, maintenanceList, arbitration, maintenances>>

\* Direct repository mode: one policy, its repository secret and the copy.
NextProjection ==
    \/ \E data \in SecretData : \E type \in SecretTypes : CreateSecret(data, type)
    \/ \E data \in SecretData : UpdateSecret(data)
    \/ DeleteSecret
    \/ \E policy \in DirectRepositoryPolicies : ApplyPolicy(policy)
    \/ RemovePolicy("alpha")
    \/ \E fail \in ProjectionFailures : PolicyReconcile("alpha", fail, << >>)
    \/ CleanupOrphaned(getOperatorNamespace)

SpecProjection == Init /\ [][NextProjection]_vars

\* Selector mode: two policies and the ReplicationSources they match.
NextSelector ==
    \/ \E policy \in SelectorPolicies : ApplyPolicy(policy)
    \/ \E name \in {"alpha", "beta"} : RemovePolicy(name)
    \/ \E k \in ProjectionSourceKeys : \E spec \in ProjectionSourceSpecs \cap SourceSpecs(k) :
          CreateSource(k, spec)
    \/ \E k \in ProjectionSourceKeys : DeleteSource(k)
    \/ \E name \in {"alpha", "beta"} : \E fail \in {"none", "status"} :
          \E rsList \in ListOrdersOf(sources) : PolicyReconcile(name, fail, rsList)

SpecSelector == Init /\ [][NextSelector]_vars

(***************************************************************************)
(* The CronJob names generated for policies, for two policies at a time.   *)
(***************************************************************************)
\* Policy names: short ones, one of 34 and one of 35 characters, and two of
\* 200 characters that differ in the last character only.
NamedPolicyNames ==
    {"alpha", "beta",
     "nightly-maintenance-of-the-shared-",
     "nightly-maintenance-of-the-shared-b",
     "nightly-maintenance-of-the-shared-backup-repository-nightly-maintenance-of-the-shared-backup-repository-nightly-maintenance-of-the-shared-backup-repository-nightly-maintenance-of-the-shared-backup-rea",
     "nightly-maintenance-of-the-shared-backup-repository-nightly-maintenance-of-the-shared-backup-repository-nightly-maintenance-of-the-shared-backup-repository-nightly-maintenance-of-the-shared-backup-reb"}

NamedPolicyKeys == { <<ns, n>> : ns \in Namespaces, n \in NamedPolicyNames }

InitNames ==
    /\ sources = << >>
    /\ cronJobs = << >>
    /\ lastOp = [op |-> "none", key |-> <<"", "">>]
    /\ scenario = "start"
    /\ maintenanceList = << >>
    /\ arbitration \in { [op |-> "none", source |-> "", policy |-> <<a, b>>, result |-> << >>] :
                            a \in NamedPolicyKeys, b \in NamedPolicyKeys }
    /\ maintenances = << >>
    /\ reconcileResult = NoResult
    /\ secrets = << >>
    /\ policyStatus = << >>
    /\ workers = << >>
    /\ workQueue = {}

\* ensureCronJob of the namespaced reconciler names the CronJobs of the two policies.
EnsureCronJobNames ==
    /\ arbitration' = [arbitration EXCEPT
                          !.op = "ensureCronJob",
                          !.result = <<directCronJobName(arbitration.policy[1]),
                                       directCronJobName(arbitration.policy[2])>>]
    /\ UNCHANGED <<raceVars, projectionVars, sourceVars, maintenanceList, directVars>>

\* ensureCronJobForDirectRepository of the selector-capable reconciler does.
EnsureDirectRepositoryNames ==
    /\ arbitration' = [arbitration EXCEPT
                          !.op = "ensureCronJobForDirectRepository",
                          !.result = <<directRepositoryCronJobName(arbitration.policy[1][2]),
                                       directRepositoryCronJobName(arbitration.policy[2][2])>>]
    /\ UNCHANGED <<raceVars, projectionVars, sourceVars, maintenanceList, directVars>>

NextNames ==
    \/ EnsureCronJobNames
    \/ EnsureDirectRepositoryNames

SpecNames == InitNames /\ [][NextNames]_vars

(***************************************************************************)
(* RepositoryConfig.Hash, applied to two configurations at a time.         *)
(***************************************************************************)
\* The CustomCA pointers of a RepositoryConfig: nil, the zero value, a CA in
\* a Secret, a CA in a ConfigMap, and a ConfigMap named like the Secret.
HashedCustomCAs ==
    { [isNil |-> TRUE, secretName |-> "", configMapName |-> "", key |-> ""],
      [isNil |-> FALSE, secretName |-> "", configMapName |-> "", key |-> ""],
      [isNil |-> FALSE, secretName |-> "ca-secret", configMapName |-> "", key |-> "ca.crt"],
      [isNil |-> FALSE, secretName |-> "", configMapName |-> "ca-bundle", key |-> "ca.crt"],
      [isNil |-> FALSE, secretName |-> "", configMapName |-> "ca-secret", key |-> "ca.crt"] }

HashedRepositoryConfigs ==
    { [repository |-> r, customCA |-> ca, namespace |-> "team-a", schedule |-> s] :
         r \in Repositories, ca \in HashedCustomCAs, s \in {"", "0 2 * * *"} }

InitHash ==
    /\ sources = << >>
    /\ cronJobs = << >>
    /\ lastOp = [op |-> "none", key |-> <<"", "">>]
    /\ scenario = "start"
    /\ maintenanceList = << >>
    /\ arbitration \in { [op |-> "none", source |-> "", policy |-> <<rc1, rc2>>,
                           result |-> << >>] :
                            rc1 \in HashedRepositoryConfigs, rc2 \in HashedRepositoryConfigs }
    /\ maintenances = << >>
    /\ reconcileResult = NoResult
    /\ secrets = << >>
    /\ policyStatus = << >>
    /\ workers = << >>
    /\ workQueue = {}

\* RepositoryConfig.Hash is computed for both configurations.
HashRepositoryConfigs ==
    /\ arbitration' = [arbitration EXCEPT
                          !.op = "Hash",
                          !.result = <<Hash(arbitration.policy[1]), Hash(arbitration.policy[2])>>]
    /\ UNCHANGED <<raceVars, projectionVars, sourceVars, maintenanceList, directVars>>

NextHash == HashRepositoryConfigs

SpecHash == InitHash /\ [][NextHash]_vars

(***************************************************************************)
(* Arbitration between policies that carry their creation timestamp.       *)
(***************************************************************************)
MaxCreationTime == 4     \* creation timestamps the API server hands out

\* Selector-mode policies that match every Kopia source.
TiePolicySpecs ==
    { [priority |-> prio,
       repositorySelector |-> [present |-> TRUE, repository |-> "*",
                               namespaceSelector |-> NoNamespaceSelector,
                               customCA |-> NoCustomCASelector, labels |-> << >>],
       repository |-> NoRepository] : prio \in Priorities }

TieSources == { s \in TargetSources : s.namespace = "team-a" }

\* metadata.creationTimestamp of the next object: later than that of every
\* object that exists.
nextCreationTimestamp(items) ==
    IF items = << >> THEN 1
    ELSE 1 + CHOOSE t \in 1..MaxCreationTime :
                 /\ \E i \in DOMAIN items : items[i].creationTimestamp = t
                 /\ \A i \in DOMAIN items : items[i].creationTimestamp <= t

InitTie ==
    /\ sources = << >>
    /\ cronJobs = << >>
    /\ lastOp = [op |-> "none", key |-> <<"", "">>]
    /\ scenario = "start"
    /\ maintenanceList = << >>
    /\ arbitration = NoArbitration
    /\ maintenances = << >>
    /\ reconcileResult = NoResult
    /\ secrets = << >>
    /\ policyStatus = << >>
    /\ workers = << >>
    /\ workQueue = {}

\* A user creates a KopiaMaintenance: the API server stamps it, and List may
\* return it at any position.
CreateStampedKopiaMaintenance(name, spec, i) ==
    /\ nextCreationTimestamp(maintenanceList) <= MaxCreationTime
    /\ CreateKopiaMaintenance([name |-> name, spec |-> spec,
                               creationTimestamp |-> nextCreationTimestamp(maintenanceList)], i)

NextTie ==
    \/ \E name \in PolicyNames : \E spec \in TiePolicySpecs :
          \E i \in 1..(Len(maintenanceList) + 1) : CreateStampedKopiaMaintenance(name, spec, i)
    \/ \E i \in DOMAIN maintenanceList : DeleteKopiaMaintenance(i)
    \/ \E source \in TieSources : FindBestMatchingMaintenanceConfig(source)
    \/ \E i \in DOMAIN maintenanceList : \E source \in TieSources :
          IsHighestPriority(i, source)

SpecTie == InitTie /\ [][NextTie]_vars

(***************************************************************************)
(* Concurrent workers of KopiaMaintenanceController: the Get and the       *)
(* Create of ensureMaintenanceCronJob are separate API calls.              *)
(***************************************************************************)
Workers == {"worker-1", "worker-2"}

RaceSourceKeys == {<<"team-a", "source-a">>, <<"team-a", "source-c">>}

RaceSourceSpecs == { spec \in AllSourceSpecs : spec.repository = "shared-repo-secret" }

\* A worker that waits for a request.
IdleWorker ==
    [pc |-> "idle", key |-> <<"", "">>, cronJobKey |-> <<"", "">>, notFound |-> FALSE,
     retried |-> FALSE, err |-> ""]

\* client.Create of the CronJob: the API server refuses a name that exists.
createCronJob(cjs, k, cj) ==
    IF k \in DOMAIN cjs
    THEN [cronJobs |-> cjs, err |-> "cronjobs.batch already exists"]
    ELSE [cronJobs |-> cjs @@ (k :> cj), err |-> ""]

\* What the controller does with the error of a finished reconcile: an
\* error puts the request back on the rate-limited queue, success forgets it.
queueAfter(queue, key, err) ==
    IF err # "" THEN queue \cup {key} ELSE queue \ {key}

\* Whether reconcileReplicationSource reaches ensureMaintenanceCronJob.
reachesEnsure(spec) ==
    /\ ~ (spec.maintenanceCronJob.present /\ spec.maintenanceCronJob.enabled = "false")
    /\ isMaintenanceEnabled(spec)

InitRace ==
    /\ sources = << >>
    /\ cronJobs = << >>
    /\ lastOp = [op |-> "none", key |-> <<"", "">>]
    /\ scenario = "start"
    /\ maintenanceList = << >>
    /\ arbitration = NoArbitration
    /\ maintenances = << >>
    /\ reconcileResult = NoResult
    /\ secrets = << >>
    /\ policyStatus = << >>
    /\ workers = [w \in Workers |-> IdleWorker]
    /\ workQueue = {}

\* A user creates a ReplicationSource while the workers run.
CreateRaceSource(k, spec) ==
    /\ k \notin DOMAIN sources
    /\ sources' = sources @@ (k :> spec)
    /\ lastOp' = [op |-> "Create", key |-> k]
    /\ UNCHANGED <<projectionVars, cronJobs, scenario, policyVars, raceVars>>

\* A worker takes the request of a source (the queue never hands one key to
\* two workers at once) and runs Reconcile up to the Get of the CronJob.  When
\* the CronJob is found, or the source needs none, the reconcile finishes
\* within this step; when it is not found the worker goes on to Create.
StartReconcile(w, k) ==
    /\ workers[w].pc = "idle"
    /\ k \in DOMAIN sources
    /\ \A v \in Workers : workers[v].pc = "idle" \/ workers[v].key # k
    /\ cronJobs' = IF CronJobKey(RepoConfigOf(k, sources[k])) \in DOMAIN cronJobs
                   THEN reconcileReplicationSource(cronJobs, k, sources[k])
                   ELSE cronJobs
    /\ workers' = [workers EXCEPT ![w] =
                     [pc |-> IF /\ reachesEnsure(sources[k])
                                /\ CronJobKey(RepoConfigOf(k, sources[k])) \notin DOMAIN cronJobs
                             THEN "create" ELSE "idle",
                      key |-> k,
                      cronJobKey |-> CronJobKey(RepoConfigOf(k, sources[k])),
                      notFound |-> /\ reachesEnsure(sources[k])
                                   /\ CronJobKey(RepoConfigOf(k, sources[k])) \notin DOMAIN cronJobs,
                      retried |-> k \in workQueue,
                      err |-> ""]]
    /\ workQueue' = IF workers'[w].pc = "idle" THEN queueAfter(workQueue, k, "") ELSE workQueue
    /\ lastOp' = [op |-> "StartReconcile", key |-> k]
    /\ UNCHANGED <<projectionVars, sources, scenario, policyVars>>

\* The worker that found no CronJob calls Create with the CronJob it built
\* from the source it read, and the reconcile returns what Create returned.
FinishCreate(w) ==
    /\ workers[w].pc = "create"
    /\ LET k   == workers[w].key
           rc  == RepoConfigOf(k, sources[k])
           out == createCronJob(cronJobs, workers[w].cronJobKey,
                                buildMaintenanceCronJob(rc, [name |-> k[2], spec |-> sources[k]]))
       IN  /\ cronJobs' = out.cronJobs
           /\ workers' = [workers EXCEPT ![w].pc = "idle", ![w].err = out.err]
           /\ workQueue' = queueAfter(workQueue, k, out.err)
    /\ lastOp' = [op |-> "FinishCreate", key |-> workers[w].key]
    /\ UNCHANGED <<projectionVars, sources, scenario, policyVars>>

NextRace ==
    \/ \E k \in RaceSourceKeys : \E spec \in RaceSourceSpecs : CreateRaceSource(k, spec)
    \/ \E w \in Workers : \E k \in RaceSourceKeys : StartReconcile(w, k)
    \/ \E w \in Workers : FinishCreate(w)

\* An error requeues the request, so a queued request is reconciled again.
SpecRace == InitRace /\ [][NextRace]_vars

(***************************************************************************)
(* Two ReplicationSources of one namespace whose maintenance is switched   *)
(* on and off, under the controller's scheduling.                          *)
(***************************************************************************)
NextDisable ==
    \/ \E k \in RaceSourceKeys : \E spec \in RaceSourceSpecs : CreateSource(k, spec)
    \/ \E k \in RaceSourceKeys : \E spec \in RaceSourceSpecs : UpdateSource(k, spec)
    \/ \E k \in RaceSourceKeys : DeleteSource(k)
    \/ \E k \in RaceSourceKeys : Reconcile(k)
    \/ CleanupOrphaned("team-a")
    \/ \E rsList \in ListOrdersOf(sources) : ReconcileAll(rsList)

SpecDisable == Init /\ [][NextDisable]_vars

\* Every event of a ReplicationSource is followed by a Reconcile of its key,
\* and the ticker of periodicReconciliation keeps firing.  No code path of
\* the controller calls CleanupOrphanedMaintenanceCronJobs, so that step is
\* possible but never promised.
PeriodicReconciliation == \E rsList \in ListOrdersOf(sources) : ReconcileAll(rsList)

SpecDisableFair ==
    /\ SpecDisable
    /\ \A k \in RaceSourceKeys : WF_vars(Reconcile(k))
    /\ WF_vars(PeriodicReconciliation)

(***************************************************************************)
(* One ReplicationSource and one KopiaMaintenance of the same namespace,   *)
(* reconciled by their two controllers over the same CronJobs.             *)
(***************************************************************************)
IdempotenceSourceKeys == {<<"team-a", "source-a">>}

NextIdempotence ==
    \/ \E k \in IdempotenceSourceKeys : \E spec \in RaceSourceSpecs : CreateSource(k, spec)
    \/ \E k \in IdempotenceSourceKeys : \E spec \in RaceSourceSpecs : UpdateSource(k, spec)
    \/ \E k \in IdempotenceSourceKeys : DeleteSource(k)
    \/ \E k \in IdempotenceSourceKeys : Reconcile(k)
    \/ CleanupOrphaned("team-a")
    \/ \E key \in DirectKeys, spec \in DirectSpecs : CreateMaintenance(key, spec)
    \/ \E key \in DirectKeys, spec \in DirectSpecs : UpdateMaintenance(key, spec)
    \/ \E key \in DirectKeys : DeleteMaintenance(key)
    \/ \E key \in DirectKeys, fail \in ApiFailures, secretExists \in BOOLEAN :
           ReconcileMaintenance(key, fail, secretExists)

SpecIdempotence == InitDirect /\ [][NextIdempotence]_vars

(***************************************************************************)
(* groupSourcesByRepository, applied to the sources a selector-mode policy *)
(* matched.                                                                *)
(***************************************************************************)
GroupSourceKeys == {<<"team-a", "source-a">>, <<"team-a", "source-c">>, <<"team-b", "source-b">>}

GroupSourceSpecs ==
    { [repository |-> r, customCA |-> ca, maintenanceCronJob |-> NoMaintenanceCronJob,
       maintenanceIntervalDays |-> NoIntervalDays] :
         r \in Repositories, ca \in {ZeroCA, SecretCA} }

GroupPolicies == { p \in SelectorPolicies : p.name = "alpha" }

InitGroups ==
    /\ sources \in UNION { [ks -> GroupSourceSpecs] : ks \in SUBSET GroupSourceKeys \ {{}} }
    /\ cronJobs = << >>
    /\ lastOp = [op |-> "none", key |-> <<"", "">>]
    /\ scenario = "start"
    /\ maintenanceList \in { <<p>> : p \in GroupPolicies }
    /\ arbitration = NoArbitration
    /\ maintenances = << >>
    /\ reconcileResult = NoResult
    /\ secrets = << >>
    /\ policyStatus = << >>
    /\ workers = << >>
    /\ workQueue = {}

\* Reconcile of the selector-mode policy, from findMatchingSources to the
\* repository groups its loop ensures one CronJob for each; rsList is the
\* order in which List returned the sources.
GroupSourcesByRepository(rsList) ==
    /\ arbitration' =
          [op |-> "groupSourcesByRepository",
           source |-> findMatchingSources(maintenanceList, maintenanceList[1],
                                          sources, rsList).matched,
           policy |-> maintenanceList[1].name,
           result |-> groupSourcesByRepository(
                          findMatchingSources(maintenanceList, maintenanceList[1],
                                              sources, rsList).matched)]
    /\ UNCHANGED <<raceVars, projectionVars, sourceVars, maintenanceList, directVars>>

NextGroups == \E rsList \in ListOrdersOf(sources) : GroupSourcesByRepository(rsList)

SpecGroups == InitGroups /\ [][NextGroups]_vars

(***************************************************************************)
(* Vocabulary of the claims.                                               *)
(***************************************************************************)

\* The repository identity of the specification: the repository secret name
\* and the custom CA reference, nothing else.
SourceIdentity(spec) ==
    <<spec.repository, spec.customCA.secretName, spec.customCA.configMapName>>

\* The repository identity a CronJob serves, read back from its
\* repository-config annotation and its custom-ca volume.
CronJobIdentity(cj) ==
    <<MapGet(cj.annotations, maintenanceRepositoryAnnotation),
      IF cj.caVolume.kind = "secret" THEN cj.caVolume.name ELSE "",
      IF cj.caVolume.kind = "configMap" THEN cj.caVolume.name ELSE "">>

\* The enabled sources, as the manager decides it.
EnabledSources == { k \in DOMAIN sources : isMaintenanceEnabled(sources[k]) }

\* A CronJob is orphaned when orphan cleanup of its namespace would delete it.
NonOrphaned(c) ==
    c \in DOMAIN CleanupOrphanedMaintenanceCronJobs(cronJobs, sources, c[1])

\* Source k has been reconciled: reconciling it again changes nothing.
Reconciled(k) ==
    /\ k \in DOMAIN sources
    /\ reconcileReplicationSource(cronJobs, k, sources[k]) = cronJobs

\* The last processed request was the reconciliation of existing, enabled source k.
JustReconciled(k) ==
    /\ lastOp = [op |-> "Reconcile", key |-> k]
    /\ k \in EnabledSources

\* The namespace whose source set the CronJob's schedule.
ScheduleOrigin(cj) == MapGet(cj.labels, maintenanceNamespaceLabel)

(***************************************************************************)
(* C1.  At most one non-orphaned maintenance CronJob exists per repository *)
(* identity within the scheduler's management scope.  Stated for the       *)
(* narrowest scope the manager works in, one namespace: the code breaks it *)
(* there already (two sources of one namespace, same repository, different *)
(* schedules), and so in every wider scope.                                *)
(***************************************************************************)
C1_OneCronJobPerIdentity ==
    \A c1, c2 \in DOMAIN cronJobs :
        ( /\ c1[1] = c2[1]
          /\ NonOrphaned(c1) /\ NonOrphaned(c2)
          /\ CronJobIdentity(cronJobs[c1]) = CronJobIdentity(cronJobs[c2]) )
        => c1 = c2

(***************************************************************************)
(* C2.  Two repository configurations with the same repository secret name *)
(* and the same custom CA have the same identity hash, whatever their      *)
(* namespaces and schedules.                                               *)
(***************************************************************************)
C2_HashIgnoresNamespaceAndSchedule ==
    \A k1, k2 \in DOMAIN sources :
        ( /\ sources[k1].repository = sources[k2].repository
          /\ sources[k1].customCA = sources[k2].customCA )
        => Hash(RepoConfigOf(k1, sources[k1])) = Hash(RepoConfigOf(k2, sources[k2]))

(***************************************************************************)
(* C3.  After two enabled sources with the same repository identity,       *)
(* different namespaces and different schedules have been reconciled,      *)
(* exactly one maintenance CronJob exists for them.                        *)
(***************************************************************************)
C3_OneCronJobAcrossNamespaces ==
    \A k1, k2 \in EnabledSources :
        ( /\ k1[1] # k2[1]
          /\ SourceIdentity(sources[k1]) = SourceIdentity(sources[k2])
          /\ getMaintenanceSchedule(sources[k1]) # getMaintenanceSchedule(sources[k2])
          /\ Reconciled(k1)
          /\ JustReconciled(k2) )
        => Cardinality({ c \in DOMAIN cronJobs :
                           CronJobIdentity(cronJobs[c]) = SourceIdentity(sources[k1]) }) = 1

(***************************************************************************)
(* C4.  Among the selector-mode policies that match a source, the winner   *)
(* is the one with the highest priority and, among those of that priority, *)
(* the one with the lexicographically smallest name, whatever the order in *)
(* which the policies are listed.  Source side: the policy                 *)
(* findBestMatchingMaintenanceConfig returns is that winner, for every     *)
(* order of the list.  Policy side: whenever isHighestPriority returns, it *)
(* answers true for that winner and false for every other matching policy. *)
(***************************************************************************)
\* Policy p takes precedence over policy q.
Precedes(p, q) ==
    \/ p.spec.priority > q.spec.priority
    \/ /\ p.spec.priority = q.spec.priority
       /\ StringLess(p.name, q.name)

\* The winner among a set of policies: the one that precedes all others.
IsWinner(p, matching) ==
    /\ p \in matching
    /\ \A q \in matching \ {p} : Precedes(p, q)

\* The policies of the list.
ListedPolicies == { maintenanceList[i] : i \in DOMAIN maintenanceList }

\* Every order in which the policies can be listed.
ListOrders ==
    { [i \in DOMAIN maintenanceList |-> maintenanceList[f[i]]] :
         f \in Permutations(DOMAIN maintenanceList) }

\* The selector-mode policies that match the source, for each of the two matchers.
ManagerMatching(source) ==
    { p \in ListedPolicies : ~ IsDirectRepositoryMode(p) /\ maintenanceMatches(p, source) }

ReconcilerMatching(source) ==
    { p \in ListedPolicies :
         /\ p.spec.repositorySelector.present
         /\ maintenanceMatchesSource(p, source) = "true" }

C5_LastDeletionRemovesCronJob ==
    ( lastOp.op = "Reconcile" /\ lastOp.key \notin DOMAIN sources )
    => \A c \in DOMAIN cronJobs :
          c[1] = lastOp.key[1]
          => \E k \in DOMAIN sources :
                SourceIdentity(sources[k]) = CronJobIdentity(cronJobs[c])

(***************************************************************************)
(* C6.  Orphan cleanup (the controller's or the manager's) never deletes a *)
(* CronJob while an enabled source still references its repository         *)
(* identity.  Stated with the referencing source in the CronJob's own      *)
(* namespace, the case most favourable to the code.                        *)
(***************************************************************************)
C6_CleanupKeepsReferenced ==
    [][ ( \/ lastOp'.op = "Cleanup"
          \/ (lastOp'.op = "Reconcile" /\ lastOp'.key \notin DOMAIN sources) )
        => \A c \in DOMAIN cronJobs :
              ( \E k \in EnabledSources :
                   /\ k[1] = c[1]
                   /\ SourceIdentity(sources[k]) = CronJobIdentity(cronJobs[c]) )
              => c \in DOMAIN cronJobs' ]_vars

(***************************************************************************)
(* C7.  Reconciling a source leaves unchanged the schedule of every        *)
(* CronJob of the same repository identity whose schedule was set from a   *)
(* different namespace and differs from the one the source proposes.       *)
(***************************************************************************)
C7_OtherNamespaceKeepsSchedule ==
    [][ \A k \in DOMAIN sources :
          lastOp' = [op |-> "Reconcile", key |-> k]
          => \A c \in DOMAIN cronJobs :
                ( /\ CronJobIdentity(cronJobs[c]) = SourceIdentity(sources[k])
                  /\ ScheduleOrigin(cronJobs[c]) # k[1]
                  /\ cronJobs[c].schedule # getMaintenanceSchedule(sources[k]) )
                => ( /\ c \in DOMAIN cronJobs'
                     /\ cronJobs'[c].schedule = cronJobs[c].schedule ) ]_vars

\* Reached: a source was just reconciled while a CronJob of its identity,
\* set from another namespace with another schedule, exists.
C7_Witness ==
    \E k \in SourceKeys :
        /\ JustReconciled(k)
        /\ Reconciled(k)
        /\ \E c \in DOMAIN cronJobs :
              /\ CronJobIdentity(cronJobs[c]) = SourceIdentity(sources[k])
              /\ ScheduleOrigin(cronJobs[c]) # k[1]
              /\ cronJobs[c].schedule # getMaintenanceSchedule(sources[k])

(***************************************************************************)
(* C8.  Source A (team-a, "0 2 * * *") reconciled first, source B (team-b, *)
(* "0 4 * * *") second, same repository; after A is deleted while B stays, *)
(* the repository's CronJob exists and its schedule is "0 2 * * *", in     *)
(* every later state.                                                      *)
(***************************************************************************)
C8_ScheduleSurvivesOriginator ==
    scenario = "A-deleted"
    => LET jobs == { c \in DOMAIN cronJobs :
                       CronJobIdentity(cronJobs[c]) = SourceIdentity(ScenarioSpec("0 4 * * *")) }
       IN  /\ jobs # {}
           /\ \A c \in jobs : cronJobs[c].schedule = "0 2 * * *"

(***************************************************************************)
(* C9.  After a source is reconciled, every CronJob of its repository      *)
(* identity whose schedule was set from the source's own namespace carries *)
(* the schedule the source proposes.                                       *)
(***************************************************************************)
C9_SameNamespaceUpdates ==
    \A k \in SourceKeys :
        JustReconciled(k)
        => \A c \in DOMAIN cronJobs :
              ( /\ CronJobIdentity(cronJobs[c]) = SourceIdentity(sources[k])
                /\ ScheduleOrigin(cronJobs[c]) = k[1] )
              => cronJobs[c].schedule = getMaintenanceSchedule(sources[k])

(***************************************************************************)
(* C10.  Every rejected schedule proposal is recorded on the CronJob: once *)
(* a source has been reconciled, each CronJob of its identity that kept a  *)
(* different schedule set from another namespace carries the               *)
(* volsync.backube/schedule-conflict annotation, naming the rejected       *)
(* schedule and the proposing namespace.                                   *)
(***************************************************************************)
C10_RejectionRecorded ==
    \A k \in SourceKeys :
        JustReconciled(k)
        => \A c \in DOMAIN cronJobs :
              ( /\ CronJobIdentity(cronJobs[c]) = SourceIdentity(sources[k])
                /\ ScheduleOrigin(cronJobs[c]) # k[1]
                /\ cronJobs[c].schedule # getMaintenanceSchedule(sources[k]) )
              => ( /\ scheduleConflictAnnotation \in DOMAIN cronJobs[c].annotations
                   /\ cronJobs[c].annotations[scheduleConflictAnnotation].schedule
                        = getMaintenanceSchedule(sources[k])
                   /\ cronJobs[c].annotations[scheduleConflictAnnotation].namespace = k[1] )

(***************************************************************************)
(* C11.  Given the same sources, the schedule chosen for the CronJobs of a *)
(* repository identity is the same in every run: whatever the order in     *)
(* which a reconciliation of all sources processes them, the CronJobs that *)
(* result carry the same schedules.                                        *)
(***************************************************************************)
\* The schedule of every CronJob.
SchedulesOf(cjs) == [c \in DOMAIN cjs |-> cjs[c].schedule]

C12_ExistingCronJobUpdatedInPlace ==
    \A k \in SourceKeys :
        JustReconciled(k)
        => LET owner == [name |-> k[2], spec |-> sources[k]]
           IN  \A c \in DOMAIN cronJobs :
                  ( /\ c[1] = k[1]
                    /\ MapGet(cronJobs[c].labels, maintenanceRepositoryLabel)
                          = Hash(RepoConfigOf(k, sources[k])) )
                  => /\ cronJobs[c].schedule = getMaintenanceSchedule(sources[k])
                     /\ cronJobs[c].suspend = isSuspended(owner)
                     /\ cronJobs[c].successfulJobsHistoryLimit
                           = getSuccessfulJobsHistoryLimit(owner)
                     /\ cronJobs[c].failedJobsHistoryLimit = getFailedJobsHistoryLimit(owner)
                     /\ cronJobs[c].resources = getMaintenanceResources(owner)

\* A policy being deleted that still carries the finalizer.
AwaitingCleanup(key) ==
    /\ key \in DOMAIN maintenances
    /\ maintenances[key].deletionTimestamp
    /\ kopiaMaintenanceFinalizer \in maintenances[key].finalizers

\* C13: for a policy that is being deleted and carries the finalizer, a step
\* removes the finalizer only if it is a reconcile whose cleanup of the
\* policy's CronJob succeeded; a reconcile whose cleanup failed leaves the
\* finalizer in place and returns an error, so the reconcile is retried.
C13_FinalizerGatedByCleanup ==
    [][ \A key \in DirectKeys : AwaitingCleanup(key) =>
          /\ ( \/ key \notin DOMAIN maintenances'
               \/ kopiaMaintenanceFinalizer \notin maintenances'[key].finalizers )
             => /\ lastOp' = [op |-> "ReconcileMaintenance", key |-> key]
                /\ reconcileResult'.cleanup = "ok"
          /\ ( /\ lastOp' = [op |-> "ReconcileMaintenance", key |-> key]
               /\ reconcileResult'.cleanup = "failed" )
             => /\ key \in DOMAIN maintenances'
                /\ kopiaMaintenanceFinalizer \in maintenances'[key].finalizers
                /\ reconcileResult'.err # ""
                /\ reconcileResult'.requeueAfter = "30s" ]_vars

\* A deleting policy whose cleanup has just failed: it still has the finalizer.
C13_Witness ==
    \E key \in DirectKeys :
        /\ AwaitingCleanup(key)
        /\ lastOp = [op |-> "ReconcileMaintenance", key |-> key]
        /\ reconcileResult.cleanup = "failed"
        /\ reconcileResult.err # ""

\* C14: Validate accepts a policy exactly when one of repository and
\* repositorySelector is set and, in direct mode, the repository secret name
\* is not empty; both set, neither set, or an empty direct-mode secret name
\* is rejected.
C14_ValidateAcceptsExactlyOneMode ==
    arbitration.op = "Validate"
    => \A i \in DOMAIN maintenanceList :
          LET spec == maintenanceList[i].spec
          IN  (arbitration.result = "")
              <=> /\ spec.repositorySelector.present # spec.repository.present
                  /\ (spec.repository.present => spec.repository.repository # "")

\* A policy with both modes set has been validated and rejected.
C14_Witness ==
    /\ arbitration.op = "Validate"
    /\ arbitration.result # ""
    /\ \E i \in DOMAIN maintenanceList :
          /\ maintenanceList[i].spec.repositorySelector.present
          /\ maintenanceList[i].spec.repository.present
          /\ maintenanceList[i].spec.repository.repository # ""

\* The policy of the key has just been reconciled and fails validation.
JustFailedValidation(key) ==
    /\ lastOp = [op |-> "ReconcileMaintenance", key |-> key]
    /\ key \in DOMAIN maintenances
    /\ directValidate(maintenances[key]) # ""

\* C15: when a policy fails validation, the reconcile returns no error to
\* the framework and requests no requeue, so the policy is reconciled again
\* only when its spec changes.
C15_ValidationFailureNotRetried ==
    \A key \in DirectKeys : JustFailedValidation(key)
        => /\ reconcileResult.err = ""
           /\ ~ reconcileResult.requeue
           /\ reconcileResult.requeueAfter = "0s"

\* The Ready reason of a reconcile that failed for another cause than
\* validation: ensureCronJob did not find the repository secret.
ReasonOfOtherFailures(maintenance) ==
    updateConditions(maintenance, NoCronJobName, "repository secret not found").ready.reason

\* C16: after a validation failure the policy's status has Ready=False with
\* a reason and a message that identify the validation rule that was
\* violated: a reconcile that fails validation and writes the status writes
\* Ready=False, a message that carries the rule's text and a reason that is
\* not the one every other failure gets.
C16_ReadyFalseNamesViolatedRule ==
    [][ \A key \in DirectKeys :
          ( /\ lastOp' = [op |-> "ReconcileMaintenance", key |-> key]
            /\ key \in DOMAIN maintenances
            /\ directValidate(maintenances[key]) # ""
            /\ maintenances'[key].status # maintenances[key].status )
          => LET ready == maintenances'[key].status.ready
             IN  /\ ready.status = "False"
                 /\ \E i \in DOMAIN ready.message :
                       ready.message[i] = directValidate(maintenances[key])
                 /\ ready.reason # ReasonOfOtherFailures(maintenances[key]) ]_vars

\* C17: a cron expression that does not parse is never written to a CronJob:
\* whatever policies are reconciled, no CronJob carries a schedule the cron
\* parser rejects.
C17_UnparsableScheduleNeverWritten ==
    \A c \in DOMAIN cronJobs : ParsesAsCron(cronJobs[c].schedule)

\* The policies in direct repository mode among the listed ones.
DirectPolicies ==
    { maintenanceList[i] : i \in { j \in DOMAIN maintenanceList :
                                      IsDirectRepositoryMode(maintenanceList[j]) } }

\* C18: a policy in direct repository mode never matches any source, in the
\* type-level Matches, in the manager's matcher and in the reconciler's
\* matcher, the one its priority comparison against other policies uses.
C18_DirectModeNeverMatches ==
    \A maintenance \in DirectPolicies : \A source \in TargetSources :
        /\ ~ Matches(maintenance, source)
        /\ ~ maintenanceMatches(maintenance, source)
        /\ maintenanceMatchesSource(maintenance, source) = "false"

\* Glob semantics: "*" stands for any run of characters, "?" for exactly
\* one, every other character for itself.
RECURSIVE GlobMatch(_, _)
GlobMatch(str, pattern) ==
    IF pattern = << >> THEN str = << >>
    ELSE IF Head(pattern) = "*"
    THEN \/ GlobMatch(str, Tail(pattern))
         \/ str # << >> /\ GlobMatch(Tail(str), pattern)
    ELSE IF Head(pattern) = "?"
    THEN str # << >> /\ GlobMatch(Tail(str), Tail(pattern))
    ELSE str # << >> /\ Head(str) = Head(pattern) /\ GlobMatch(Tail(str), Tail(pattern))

\* C19: each repository-name matcher returns true for a pattern and a name
\* exactly when the name matches the pattern under glob semantics, wherever
\* the wildcards stand in the pattern.
C19_MatcherIsGlob ==
    arbitration.op \in {"EnhancedMaintenanceManager.matchesPattern",
                        "KopiaMaintenanceReconciler.matchesPattern", "matchesPattern"}
    => ( arbitration.result = "true"
         <=> GlobMatch(CharsOf[arbitration.source], CharsOf[arbitration.policy]) )

\* The namespace object carries every listed key with the listed value.
NamespaceCarries(namespace, matchLabels) ==
    \A key \in DOMAIN matchLabels :
        /\ key \in DOMAIN NamespaceLabels[namespace]
        /\ NamespaceLabels[namespace][key] = matchLabels[key]

\* C20: a policy whose namespace selector has matchLabels matches a source
\* only if the source's namespace carries every listed key with the listed
\* value; a namespace lacking one of them is never matched.
C20_MatchLabelsRequireNamespaceLabels ==
    ( /\ arbitration.op \in {"EnhancedMaintenanceManager.maintenanceMatches",
                              "KopiaMaintenanceReconciler.maintenanceMatchesSource",
                              "KopiaMaintenance.Matches"}
      /\ arbitration.result = "true" )
    => NamespaceCarries(arbitration.source.namespace,
                        maintenanceList[1].spec.repositorySelector.namespaceSelector.matchLabels)

\* C21: when a selector-mode policy matches a source, the CronJob the
\* reconcile leaves for the source carries the winning policy's schedule,
\* suspend flag, history limits and resources (their defaults where the
\* policy sets none), not the source's embedded maintenance fields.
C21_PolicySettingsApplied ==
    \A k \in SourceKeys :
        ( /\ lastOp = [op |-> "EnhancedReconcile", key |-> k]
          /\ arbitration.result = "crd" )
        => LET maintenance == PolicyNamed(maintenanceList, arbitration.policy)
               c == CronJobKey(RepoConfigOf(k, syntheticSpecFromCRD(sources[k], maintenance)))
           IN  /\ c \in DOMAIN cronJobs
               /\ cronJobs[c].schedule = GetSchedule(maintenance)
               /\ cronJobs[c].suspend = IF maintenance.spec.suspend = "nil" THEN "false"
                                        ELSE maintenance.spec.suspend
               /\ cronJobs[c].successfulJobsHistoryLimit =
                      IF maintenance.spec.successfulJobsHistoryLimit.present
                      THEN maintenance.spec.successfulJobsHistoryLimit.value ELSE 3
               /\ cronJobs[c].failedJobsHistoryLimit =
                      IF maintenance.spec.failedJobsHistoryLimit.present
                      THEN maintenance.spec.failedJobsHistoryLimit.value ELSE 1
               /\ cronJobs[c].resources = IF maintenance.spec.resources = "nil" THEN "default"
                                          ELSE maintenance.spec.resources

\* C22: for a source that specifies both maintenanceCronJob and
\* maintenanceIntervalDays, the enabled decision and the schedule are the
\* ones the source would get without maintenanceIntervalDays.
C22_CronJobOverridesIntervalDays ==
    \A k \in DOMAIN sources :
        (sources[k].maintenanceCronJob.present /\ sources[k].maintenanceIntervalDays.present)
        => LET without == [sources[k] EXCEPT !.maintenanceIntervalDays = NoIntervalDays]
           IN  /\ isMaintenanceEnabled(sources[k]) = isMaintenanceEnabled(without)
               /\ getMaintenanceSchedule(sources[k]) = getMaintenanceSchedule(without)

\* The CronJobs the manager created for the policy of the key.
CronJobsOfPolicy(key) ==
    { c \in DOMAIN cronJobs :
        /\ c[1] = key[1]
        /\ createdByLabel \in DOMAIN cronJobs[c].labels
        /\ cronJobs[c].labels[createdByLabel] = <<"maintenance-", key[2]>> }

\* C23: after a successful reconciliation of a policy with enabled=false no
\* maintenance CronJob exists for the policy: none is created and one
\* created earlier is removed.
C23_DisabledPolicyHasNoCronJob ==
    \A key \in DirectKeys :
        ( /\ lastOp = [op |-> "ReconcileMaintenance", key |-> key]
          /\ key \in DOMAIN maintenances
          /\ ~ directGetEnabled(maintenances[key])
          /\ reconcileResult.cleanup = "ok"
          /\ reconcileResult.err = "" )
        => CronJobsOfPolicy(key) = {}

\* The direct-mode policy "alpha" when it is listed, enabled and names a
\* repository secret outside the operator namespace.
ProjectingPolicy ==
    /\ \E i \in DOMAIN maintenanceList : maintenanceList[i].name = "alpha"
    /\ IsDirectRepositoryMode(PolicyNamed(maintenanceList, "alpha"))
    /\ GetEnabled(PolicyNamed(maintenanceList, "alpha"))
    /\ PolicyNamed(maintenanceList, "alpha").spec.repository.namespace = "team-a"

\* The copy of the repository secret that policy "alpha" keeps.
ProjectedSecretKey ==
    <<getOperatorNamespace, targetSecretNameOf[<<"alpha", "shared-repo-secret">>]>>

\* C24: every successful reconciliation of a policy that projects its
\* repository secret leaves the projected copy with the data and the type
\* the source secret had when the reconciliation read it.
C24_ProjectionFollowsSource ==
    [][ ( /\ lastOp' = [op |-> "PolicyReconcile", key |-> <<"", "alpha">>]
          /\ reconcileResult'.err = ""
          /\ ProjectingPolicy )
        => ( /\ RepositorySecretKey \in DOMAIN secrets
             /\ ProjectedSecretKey \in DOMAIN secrets'
             /\ secrets'[ProjectedSecretKey].data = secrets[RepositorySecretKey].data
             /\ secrets'[ProjectedSecretKey].type = secrets[RepositorySecretKey].type ) ]_vars

\* A successful reconciliation after which the copy holds the second
\* content of a basic-auth secret.
C24_Witness ==
    /\ lastOp = [op |-> "PolicyReconcile", key |-> <<"", "alpha">>]
    /\ reconcileResult.err = ""
    /\ ProjectingPolicy
    /\ ProjectedSecretKey \in DOMAIN secrets
    /\ secrets[ProjectedSecretKey].data = "password-2"
    /\ secrets[ProjectedSecretKey].type = "kubernetes.io/basic-auth"
    /\ policyStatus["alpha"].ready.status = "True"

\* The projected credentials: the labelled secrets of the operator namespace.
ProjectedSecrets ==
    { k \in DOMAIN secrets :
        /\ k[1] = getOperatorNamespace
        /\ MapGet(secrets[k].labels, maintenanceLabelKey) = "true" }

\* A CronJob runs with the secret of that key.
CronJobUses(k) ==
    \E c \in DOMAIN cronJobs :
        /\ c[1] = k[1]
        /\ MapGet(cronJobs[c].annotations, maintenanceRepositoryAnnotation) = k[2]

\* C25: after a cleanup, the orphan cleanup of the operator namespace or
\* the cleanup of a disabled policy, no projected credential is left
\* without the CronJob that uses it.
C25_NoProjectedSecretWithoutCronJob ==
    ( \/ lastOp.op = "Cleanup"
      \/ /\ lastOp = [op |-> "PolicyReconcile", key |-> <<"", "alpha">>]
         /\ reconcileResult.err = ""
         /\ \E i \in DOMAIN maintenanceList :
               /\ maintenanceList[i].name = "alpha"
               /\ ~ GetEnabled(maintenanceList[i]) )
    => \A k \in ProjectedSecrets : CronJobUses(k)

\* The length of "kopia-maint-<name>-<hash>".
directCronJobNameLen(n) == Len(CharsOf[n.prefix]) + Len(n.name) + 1 + n.hash.len

\* The length of "kopia-maintenance-<name>".
directRepositoryCronJobNameLen(n) == Len(CharsOf[n[1]]) + Len(CharsOf[n[2]])

\* C26: the CronJob name generated for a policy has at most 63 characters,
\* whatever the length of the policy name, in the namespaced reconciler and
\* in the selector-capable one.
C26_CronJobNameAtMost63 ==
    /\ arbitration.op = "ensureCronJob"
          => \A i \in {1, 2} : directCronJobNameLen(arbitration.result[i]) <= 63
    /\ arbitration.op = "ensureCronJobForDirectRepository"
          => \A i \in {1, 2} : directRepositoryCronJobNameLen(arbitration.result[i]) <= 63

C28_DifferentRepositoriesDifferentHashes ==
    ( /\ arbitration.op = "Hash"
      /\ \/ arbitration.policy[1].repository # arbitration.policy[2].repository
         \/ arbitration.policy[1].customCA.secretName
               # arbitration.policy[2].customCA.secretName
         \/ arbitration.policy[1].customCA.configMapName
               # arbitration.policy[2].customCA.configMapName )
    => arbitration.result[1] # arbitration.result[2]

\* Two hashed configurations of one repository, namespace and schedule: the
\* CA of one is the Secret "ca-secret", the CA of the other the ConfigMap of
\* the same name.
C28_Witness ==
    /\ arbitration.op = "Hash"
    /\ arbitration.policy[1].repository = arbitration.policy[2].repository
    /\ arbitration.policy[1].schedule = arbitration.policy[2].schedule
    /\ arbitration.policy[1].customCA.secretName = "ca-secret"
    /\ arbitration.policy[2].customCA.configMapName = "ca-secret"
    /\ arbitration.result[1] # arbitration.result[2]

\* C29: a configuration whose custom CA is nil and one whose custom CA is the
\* zero value, equal otherwise, have the same hash.
C29_NilAndZeroCAHashAlike ==
    ( /\ arbitration.op = "Hash"
      /\ arbitration.policy[1].customCA.isNil
      /\ arbitration.policy[2].customCA
            = [isNil |-> FALSE, secretName |-> "", configMapName |-> "", key |-> ""]
      /\ arbitration.policy[1].repository = arbitration.policy[2].repository
      /\ arbitration.policy[1].namespace = arbitration.policy[2].namespace
      /\ arbitration.policy[1].schedule = arbitration.policy[2].schedule )
    => arbitration.result[1] = arbitration.result[2]

\* The other listed policies that match a ReplicationSource the policy of
\* that name matches.
OtherPoliciesMatching(name) ==
    { maintenanceList[j].name : j \in
        { i \in DOMAIN maintenanceList :
            /\ maintenanceList[i].name # name
            /\ \E k \in DOMAIN sources :
                  /\ maintenanceMatchesSource(PolicyNamed(maintenanceList, name),
                                              SourceView(k, sources[k])) = "true"
                  /\ maintenanceMatchesSource(maintenanceList[i],
                                              SourceView(k, sources[k])) = "true" } }

\* C30: after a selector-mode policy was reconciled successfully, its
\* status.conflictingMaintenances names exactly the other policies that
\* match a source it matches.
C30_ConflictsRecordedInStatus ==
    \A name \in {"alpha", "beta"} :
        ( /\ lastOp = [op |-> "PolicyReconcile", key |-> <<"", name>>]
          /\ reconcileResult.err = ""
          /\ \E i \in DOMAIN maintenanceList : maintenanceList[i].name = name )
        => { policyStatus[name].conflictingMaintenances[i] :
               i \in DOMAIN policyStatus[name].conflictingMaintenances }
           = OtherPoliciesMatching(name)

(***************************************************************************)
(* C31.  Arbitration never produces an error: it answers with one winner   *)
(* or with no winner, and with no winner exactly when no policy matches.   *)
(***************************************************************************)

\* C31: the source-side arbitration returns the name of a listed policy or
\* nil, and nil exactly when no selector-mode policy matches the source; the
\* policy-side arbitration answers true or false and never panics.
C31_ArbitrationNeverErrs ==
    /\ arbitration.op = "findBestMatchingMaintenanceConfig"
       => /\ arbitration.result = "nil" <=> ManagerMatching(arbitration.source) = {}
          /\ arbitration.result # "nil"
             => \E p \in ManagerMatching(arbitration.source) : p.name = arbitration.result
    /\ arbitration.op = "isHighestPriority"
       => arbitration.result \in {"true", "false"}

(***************************************************************************)
(* C32.  Between two matching policies of equal priority, the one that was *)
(* created first wins.                                                     *)
(***************************************************************************)

\* The policy p was created before every other policy of its priority in
\* the set.
FirstCreatedOfItsPriority(p, matching) ==
    \A q \in matching \ {p} :
        q.spec.priority = p.spec.priority => p.creationTimestamp < q.creationTimestamp

\* C32: the policy the source-side arbitration returns, and every policy the
\* policy-side arbitration answers true for, was created before every other
\* matching policy of the same priority.
C32_FirstCreatedWinsTie ==
    /\ arbitration.op = "findBestMatchingMaintenanceConfig"
       => \A p \in ManagerMatching(arbitration.source) :
             p.name = arbitration.result
             => FirstCreatedOfItsPriority(p, ManagerMatching(arbitration.source))
    /\ ( arbitration.op = "isHighestPriority" /\ arbitration.result = "true" )
       => \A p \in ReconcilerMatching(arbitration.source) :
             p.name = arbitration.policy
             => FirstCreatedOfItsPriority(p, ReconcilerMatching(arbitration.source))

(***************************************************************************)
(* C33.  A deleting policy that carries the finalizer eventually has its   *)
(* finalizer removed, whatever its spec.                                   *)
(***************************************************************************)

\* The policy is being deleted and still carries the finalizer.
DeletingWithFinalizer(key) ==
    /\ key \in DOMAIN maintenances
    /\ maintenances[key].deletionTimestamp
    /\ kopiaMaintenanceFinalizer \in maintenances[key].finalizers

\* C33: when reconciles whose API calls succeed keep being run, every policy
\* that has a deletion timestamp and the finalizer eventually has no
\* finalizer (and is then gone from the API server).
C33_FinalizerEventuallyRemoved ==
    \A key \in DirectKeys :
        DeletingWithFinalizer(key) ~> ~ DeletingWithFinalizer(key)

(***************************************************************************)
(* C34.  The CronJob name the policy reconciler reports and deletes is the *)
(* name of the CronJob that was created for the policy.                    *)
(***************************************************************************)

\* C34: after a reconcile that ensured the CronJob, status.activeCronJob
\* names a CronJob that was created for the policy; after a reconcile whose
\* cleanupCronJob succeeded (policy disabled or being deleted), no CronJob
\* created for the policy remains.
C34_ReportedNameIsCreatedCronJob ==
    \A key \in DirectKeys :
        /\ ( /\ lastOp = [op |-> "ReconcileMaintenance", key |-> key]
             /\ key \in DOMAIN maintenances
             /\ reconcileResult.err = ""
             /\ reconcileResult.requeueAfter = "5m" )
           => <<key[1], maintenances[key].status.activeCronJob>> \in CronJobsOfPolicy(key)
        /\ ( /\ lastOp = [op |-> "ReconcileMaintenance", key |-> key]
             /\ reconcileResult.cleanup = "ok" )
           => CronJobsOfPolicy(key) = {}

(***************************************************************************)
(* C35.  Two workers that both found no CronJob for one repository         *)
(* identity leave exactly one CronJob, and the loser's retry succeeds      *)
(* without creating a second one.                                          *)
(***************************************************************************)

\* The worker is about to call Create for a CronJob another worker created
\* after this worker's Get.
LosesRace(w) ==
    /\ workers[w].pc = "create"
    /\ workers[w].cronJobKey \in DOMAIN cronJobs

\* The CronJobs that carry the identity hash the code computes for the source.
CronJobsOfHash(cjs, k) ==
    { c \in DOMAIN cjs :
        cjs[c].labels[maintenanceRepositoryLabel] = Hash(RepoConfigOf(k, sources[k])) }

\* For two sources whose RepositoryConfig hashes agree the race is handled:
\* the Create of the worker that lost changes no CronJob, returns an error
\* and requeues the request; the reconcile of a requeued request returns no
\* error, creates nothing, and one CronJob carries the hash.
LostRaceIsRetried ==
    [][ \A w \in Workers :
          /\ ( LosesRace(w) /\ workers'[w].pc = "idle" )
             => /\ cronJobs' = cronJobs
                /\ workers'[w].err # ""
                /\ workers[w].key \in workQueue'
                /\ Cardinality(CronJobsOfHash(cronJobs', workers[w].key)) = 1
          /\ ( workers[w].pc = "idle" /\ workers'[w] # workers[w] /\ workers'[w].retried )
             => /\ cronJobs' = cronJobs
                /\ workers'[w].pc = "idle"
                /\ workers'[w].err = ""
                /\ workers'[w].key \notin workQueue'
                /\ Cardinality(CronJobsOfHash(cronJobs', workers'[w].key)) = 1
      ]_vars

\* The two workers have finished the reconciles of two different sources of
\* one repository identity, each after its Get found no CronJob, and no
\* request waits for a retry.
BothFoundNoneAndFinished(w1, w2) ==
    /\ w1 # w2
    /\ workers[w1].pc = "idle" /\ workers[w2].pc = "idle"
    /\ workers[w1].notFound /\ workers[w2].notFound
    /\ workers[w1].key # workers[w2].key
    /\ SourceIdentity(sources[workers[w1].key]) = SourceIdentity(sources[workers[w2].key])
    /\ workQueue = {}

\* C35: when two workers reconciled two sources of one repository identity,
\* both found no CronJob, and every retry is done, exactly one CronJob
\* serves that identity.
C35_RaceLeavesOneCronJob ==
    \A w1, w2 \in Workers :
        BothFoundNoneAndFinished(w1, w2)
        => Cardinality({ c \in DOMAIN cronJobs :
                           CronJobIdentity(cronJobs[c])
                              = SourceIdentity(sources[workers[w1].key]) }) = 1

(***************************************************************************)
(* C36.  Reconciling the same unchanged source or policy a second time     *)
(* leaves the CronJobs exactly as the first pass left them.                *)
(***************************************************************************)

\* The CronJobs after one more Reconcile of the ReplicationSource request.
AfterSecondSourcePass(k) ==
    IF k \notin DOMAIN sources
    THEN cleanupOrphanedCronJobs(cronJobs, sources, k[1])
    ELSE reconcileReplicationSource(cronJobs, k, sources[k])

PolicySideWinners(source) ==
    { p \in ReconcilerMatching(source) :
        isHighestPriority(p, source, findConflictingMaintenances(maintenanceList, p)) = "true" }

\* C37: for every source matched by at least one listed policy, exactly one
\* policy wins on the policy side, and it is the policy
\* findBestMatchingMaintenanceConfig returns for the source.
C37_BothSidesPickOneWinner ==
    \A source \in TargetSources :
        ( ManagerMatching(source) \cup ReconcilerMatching(source) # {} )
        => /\ Cardinality(PolicySideWinners(source)) = 1
           /\ \A w \in PolicySideWinners(source) :
                 w.name = findBestMatchingMaintenanceConfig(maintenanceList, source)

(***************************************************************************)
(* C38.  Matched sources with the same repository secret name and the same *)
(* custom CA fall into one group, so there is one group, and one ensured   *)
(* CronJob, per distinct repository configuration.                         *)
(***************************************************************************)

\* The repository configuration RepositoryKey stands for.
RepositoryConfiguration(k) == <<sources[k].repository, sources[k].customCA>>

\* C38: two matched sources of the same repository configuration are in the
\* same group, and there are as many groups as distinct configurations
\* among the matched sources.
C38_OneGroupPerRepositoryConfiguration ==
    arbitration.op = "groupSourcesByRepository"
    => LET matched == arbitration.source
           groups  == arbitration.result
       IN  /\ \A i, j \in DOMAIN matched :
                 RepositoryConfiguration(matched[i]) = RepositoryConfiguration(matched[j])
                 => \E g \in DOMAIN groups :
                       \E x, y \in DOMAIN groups[g] :
                          groups[g][x] = matched[i] /\ groups[g][y] = matched[j]
           /\ Len(groups)
                 = Cardinality({ RepositoryConfiguration(matched[i]) : i \in DOMAIN matched })

(***************************************************************************)
(* C39.  When a source's maintenance is switched from enabled to disabled  *)
(* and no other enabled source references the repository identity, the     *)
(* CronJob of that identity is eventually deleted.                         *)
(***************************************************************************)

\* An enabled source references the repository identity the CronJob serves.
ReferencedByEnabledSource(c) ==
    \E k \in DOMAIN sources :
        /\ isMaintenanceEnabled(sources[k])
        /\ k[1] = c[1]
        /\ SourceIdentity(sources[k]) = CronJobIdentity(cronJobs[c])

\* The CronJob was created for a source while its maintenance was enabled,
\* that source is now disabled, and no enabled source references the
\* CronJob's repository identity.
LeftByDisabledSource(c) ==
    /\ c \in DOMAIN cronJobs
    /\ ~ ReferencedByEnabledSource(c)
    /\ \E k \in DOMAIN sources :
          /\ ~ isMaintenanceEnabled(sources[k])
          /\ k[1] = c[1]
          /\ cronJobs[c].labels[createdByLabel] = k[2]
          /\ SourceIdentity(sources[k]) = CronJobIdentity(cronJobs[c])

\* C39: such a CronJob is eventually deleted, unless an enabled source comes
\* to reference its identity again.
C39_DisabledSourceCronJobDeleted ==
    \A c \in { CronJobKey(RepoConfigOf(k, spec)) : k \in RaceSourceKeys, spec \in RaceSourceSpecs } :
        LeftByDisabledSource(c)
        ~> ( c \notin DOMAIN cronJobs \/ ReferencedByEnabledSource(c) )

(***************************************************************************)
(* C40.  Reconciling a selector-mode policy never crashes the worker: a    *)
(* CronJob name is computed for every repository key, short ones too.      *)
(***************************************************************************)

\* C40: no reconcile of a selector-mode policy ends in a panic, and after a
\* reconcile that returned no error the status lists one CronJob name for
\* every matched source's repository group.
C40_SelectorReconcileNeverPanics ==
    \A name \in {"alpha", "beta"} :
        ( /\ lastOp = [op |-> "PolicyReconcile", key |-> <<"", name>>]
          /\ \E i \in DOMAIN maintenanceList : maintenanceList[i].name = name )
        => /\ reconcileResult.err # "panic"
           /\ ( reconcileResult.err = "" /\ name \in DOMAIN policyStatus )
              => Len(policyStatus[name].activeCronJobs)
                    = Len(policyStatus[name].matchedSources)

====
